---------------------------- MODULE Spec2Model ----------------------------
(***************************************************************************)
(* Questionnaire engine: the session loop of main.ts `start`, the engine's *)
(* runSession / promptWithValidation, the ConfigLoader, the                *)
(* ResponseValidator and the ConditionEvaluator.                           *)
(*                                                                         *)
(* A JavaScript string is a sequence of tokens whose concatenation is the  *)
(* string.  Text the user types, choices and expected answers are written  *)
(* one character per token, so that trim() and toLowerCase() act on        *)
(* characters; literal message fragments of the program are one token.     *)
(***************************************************************************)
EXTENDS Integers, Sequences, FiniteSets, TLC

(***************************************************************************)
(* Bounds of the model.                                                    *)
(***************************************************************************)
\* rejected inputs recorded per session
MaxRejects == 2
\* iterations of the session loop of start()
MaxSessions == 2

(***************************************************************************)
(* Strings: String.prototype.trim, toLowerCase, includes, Array.join.      *)
(***************************************************************************)
WhiteSpace == {" ", "\t"}

UpperCase == <<"A", "B", "C", "D", "E", "F", "G", "H", "I", "J", "K", "L", "M",
               "N", "O", "P", "Q", "R", "S", "T", "U", "V", "W", "X", "Y", "Z">>

LowerCase == <<"a", "b", "c", "d", "e", "f", "g", "h", "i", "j", "k", "l", "m",
               "n", "o", "p", "q", "r", "s", "t", "u", "v", "w", "x", "y", "z">>

ToLowerChar(c) ==
    IF \E i \in 1..Len(UpperCase) : UpperCase[i] = c
    THEN LowerCase[CHOOSE i \in 1..Len(UpperCase) : UpperCase[i] = c]
    ELSE c

ToLowerCase(s) == [i \in 1..Len(s) |-> ToLowerChar(s[i])]

RECURSIVE TrimStart(_)
TrimStart(s) ==
    IF s # <<>> /\ Head(s) \in WhiteSpace THEN TrimStart(Tail(s)) ELSE s

RECURSIVE TrimEnd(_)
TrimEnd(s) ==
    IF s # <<>> /\ s[Len(s)] \in WhiteSpace
    THEN TrimEnd(SubSeq(s, 1, Len(s) - 1))
    ELSE s

Trim(s) == TrimEnd(TrimStart(s))

\* s.includes(pat): pat occurs in s as a run of consecutive tokens
Includes(s, pat) ==
    \E i \in 0..(Len(s) - Len(pat)) :
        \A j \in 1..Len(pat) : s[i + j] = pat[j]

\* strs.join(sep) for an array of strings
RECURSIVE Join(_, _)
Join(strs, sep) ==
    IF strs = <<>> THEN <<>>
    ELSE IF Len(strs) = 1 THEN strs[1]
    ELSE strs[1] \o sep \o Join(Tail(strs), sep)

\* `${index}`
Digits == <<"0", "1", "2", "3", "4", "5", "6", "7", "8", "9">>

NumToStr(n) == <<Digits[n + 1]>>

(***************************************************************************)
(* JSON values as JSON.parse returns them, tagged with their kind.         *)
(***************************************************************************)
Undefined == [t |-> "undefined"]
Null == [t |-> "null"]
Str(s) == [t |-> "string", v |-> s]
Num(n) == [t |-> "number", v |-> n]
Arr(a) == [t |-> "array", v |-> a]
Obj(o) == [t |-> "object", v |-> o]

\* typeof x
TypeOf(x) == IF x.t \in {"null", "array"} THEN "object" ELSE x.t

\* !x
Falsy(x) ==
    \/ x.t \in {"undefined", "null"}
    \/ x.t = "number" /\ x.v = 0
    \/ x.t = "string" /\ x.v = <<>>

\* x.k, undefined when x has no such property
Get(x, k) ==
    IF x.t = "object" /\ k \in DOMAIN x.v THEN x.v[k] ELSE Undefined

IsArray(x) == x.t = "array"

(***************************************************************************)
(* JSON text, as the sequence of its tokens: JSON.stringify writes it and  *)
(* JSON.parse reads it.                                                    *)
(***************************************************************************)
Tok(k) == [k |-> k]

StrTok(s) == [k |-> "string", v |-> s]

NumTok(n) == [k |-> "number", v |-> n]

\* the order in which the properties of the documents are written
KeyOrder == <<"title", "questions", "id", "text", "type", "choices", "condition",
              "questionId", "expectedAnswer">>

\* JSON.stringify(x); a property whose value is undefined is left out
RECURSIVE Stringify(_)
Stringify(x) ==
    IF x.t = "string" THEN <<StrTok(x.v)>>
    ELSE IF x.t = "number" THEN <<NumTok(x.v)>>
    ELSE IF x.t = "null" THEN <<Tok("null")>>
    ELSE IF x.t = "array"
    THEN <<Tok("[")>>
           \o Join([i \in 1..Len(x.v) |-> Stringify(x.v[i])], <<Tok(",")>>)
           \o <<Tok("]")>>
    ELSE LET keys == SelectSeq(KeyOrder, LAMBDA k : k \in DOMAIN x.v /\ x.v[k] # Undefined)
         IN  <<Tok("{")>>
               \o Join([i \in 1..Len(keys) |->
                          <<StrTok(<<keys[i]>>), Tok(":")>> \o Stringify(x.v[keys[i]])],
                       <<Tok(",")>>)
               \o <<Tok("}")>>

Parsed(value, next) == [ok |-> TRUE, value |-> value, next |-> next]

SyntaxError(message) == [ok |-> FALSE, message |-> <<message>>]

UnexpectedEnd == SyntaxError("Unexpected end of JSON input")

UnexpectedToken == SyntaxError("Unexpected token in JSON")

\* the value that starts at token i of ts, and the position after it
RECURSIVE ParseValue(_, _), ParseElements(_, _, _), ParseMembers(_, _, _)
ParseValue(ts, i) ==
    IF i > Len(ts) THEN UnexpectedEnd
    ELSE IF ts[i].k = "string" THEN Parsed(Str(ts[i].v), i + 1)
    ELSE IF ts[i].k = "number" THEN Parsed(Num(ts[i].v), i + 1)
    ELSE IF ts[i].k = "null" THEN Parsed(Null, i + 1)
    ELSE IF ts[i].k = "["
    THEN IF i < Len(ts) /\ ts[i + 1].k = "]"
         THEN Parsed(Arr(<<>>), i + 2)
         ELSE ParseElements(ts, i + 1, <<>>)
    ELSE IF ts[i].k = "{"
    THEN IF i < Len(ts) /\ ts[i + 1].k = "}"
         THEN Parsed(Obj(<<>>), i + 2)
         ELSE ParseMembers(ts, i + 1, <<>>)
    ELSE UnexpectedToken

\* the elements of an array from token i on, acc being those read so far
ParseElements(ts, i, acc) ==
    LET e == ParseValue(ts, i)
    IN  IF ~e.ok THEN e
        ELSE IF e.next > Len(ts) THEN UnexpectedEnd
        ELSE IF ts[e.next].k = "," THEN ParseElements(ts, e.next + 1, Append(acc, e.value))
        ELSE IF ts[e.next].k = "]" THEN Parsed(Arr(Append(acc, e.value)), e.next + 1)
        ELSE UnexpectedToken

\* the members of an object from token i on, acc being those read so far; a
\* name that occurs again replaces the earlier member
ParseMembers(ts, i, acc) ==
    IF i > Len(ts) \/ i + 1 > Len(ts) THEN UnexpectedEnd
    ELSE IF ts[i].k # "string" \/ ts[i + 1].k # ":" THEN UnexpectedToken
    ELSE LET m == ParseValue(ts, i + 2)
             name == ts[i].v[1]
             members == [k \in DOMAIN acc \cup {name} |-> IF k = name THEN m.value ELSE acc[k]]
         IN  IF ~m.ok THEN m
             ELSE IF m.next > Len(ts) THEN UnexpectedEnd
             ELSE IF ts[m.next].k = "," THEN ParseMembers(ts, m.next + 1, members)
             ELSE IF ts[m.next].k = "}" THEN Parsed(Obj(members), m.next + 1)
             ELSE UnexpectedToken

\* JSON.parse(text): the value, or the message of the SyntaxError
JsonParse(text) ==
    LET r == ParseValue(text, 1)
    IN  IF ~r.ok THEN r
        ELSE IF r.next # Len(text) + 1 THEN UnexpectedToken
        ELSE r

(***************************************************************************)
(* ConfigLoader: validateCondition, validateQuestion, validateConfig and   *)
(* load.  A validate* operator yields the message of the Error it throws,  *)
(* or NoThrow when it returns normally.                                    *)
(***************************************************************************)
NoThrow == <<>>

EveryString(a) == \A i \in 1..Len(a) : TypeOf(a[i]) = "string"

ValidTypes == << <<"text">>, <<"yesno">>, <<"multiple-choice">> >>

ValidateCondition(condition, questionIndex) ==
    LET at == <<"Question at index ">> \o NumToStr(questionIndex)
        questionId == Get(condition, "questionId")
        expectedAnswer == Get(condition, "expectedAnswer")
        isString == TypeOf(expectedAnswer) = "string"
        isStringArray == /\ IsArray(expectedAnswer)
                         /\ Len(expectedAnswer.v) > 0
                         /\ EveryString(expectedAnswer.v)
    IN  IF Falsy(condition) \/ TypeOf(condition) # "object"
        THEN at \o <<" has invalid condition. Must be an object">>
        ELSE IF Falsy(questionId) \/ TypeOf(questionId) # "string"
        THEN at \o <<" condition must have a \"questionId\" field of type string">>
        ELSE IF expectedAnswer = Undefined
        THEN at \o <<" condition must have an \"expectedAnswer\" field">>
        ELSE IF ~isString /\ ~isStringArray
        THEN at \o <<" condition \"expectedAnswer\" must be a string or non-empty array of strings">>
        ELSE NoThrow

\* a validateQuestion that checks neither the type against the valid types nor
\* the choices of a multiple-choice question
ValidateQuestionAnyKind(question, index) ==
    LET at == <<"Question at index ">> \o NumToStr(index)
        id == Get(question, "id")
        text == Get(question, "text")
        type == Get(question, "type")
        condition == Get(question, "condition")
    IN  IF Falsy(question) \/ TypeOf(question) # "object"
        THEN at \o <<" must be an object">>
        ELSE IF Falsy(id) \/ TypeOf(id) # "string"
        THEN at \o <<" must have an \"id\" field of type string">>
        ELSE IF Falsy(text) \/ TypeOf(text) # "string"
        THEN at \o <<" must have a \"text\" field of type string">>
        ELSE IF Falsy(type) \/ TypeOf(type) # "string"
        THEN at \o <<" must have a \"type\" field of type string">>
        ELSE IF condition # Undefined
        THEN ValidateCondition(condition, index)
        ELSE NoThrow

ValidateQuestion(question, index) ==
    LET at == <<"Question at index ">> \o NumToStr(index)
        id == Get(question, "id")
        text == Get(question, "text")
        type == Get(question, "type")
        choices == Get(question, "choices")
        condition == Get(question, "condition")
    IN  IF Falsy(question) \/ TypeOf(question) # "object"
        THEN at \o <<" must be an object">>
        ELSE IF Falsy(id) \/ TypeOf(id) # "string"
        THEN at \o <<" must have an \"id\" field of type string">>
        ELSE IF Falsy(text) \/ TypeOf(text) # "string"
        THEN at \o <<" must have a \"text\" field of type string">>
        ELSE IF Falsy(type) \/ TypeOf(type) # "string"
        THEN at \o <<" must have a \"type\" field of type string">>
        ELSE IF ~(\E i \in 1..Len(ValidTypes) : ValidTypes[i] = type.v)
        THEN at \o <<" has invalid type \"">> \o type.v \o <<"\". Must be one of: ">>
                \o Join(ValidTypes, <<", ">>)
        ELSE IF type.v = <<"multiple-choice">> /\ (~IsArray(choices) \/ Len(choices.v) = 0)
        THEN at \o <<" with type \"multiple-choice\" must have a non-empty \"choices\" array">>
        ELSE IF type.v = <<"multiple-choice">> /\ ~EveryString(choices.v)
        THEN at \o <<" has invalid choices. All choices must be strings">>
        ELSE IF condition # Undefined
        THEN ValidateCondition(condition, index)
        ELSE NoThrow

\* a validateConfig that reports the last question at fault
ValidateConfigLast(config) ==
    LET title == Get(config, "title")
        questions == Get(config, "questions")
        bad == {i \in 1..Len(questions.v) : ValidateQuestion(questions.v[i], i - 1) # NoThrow}
    IN  IF Falsy(config) \/ TypeOf(config) # "object"
        THEN <<"Configuration must", " be an object">>
        ELSE IF Falsy(title) \/ TypeOf(title) # "string"
        THEN <<"Configuration must", " have a \"title\" field of type string">>
        ELSE IF ~IsArray(questions)
        THEN <<"Configuration must", " have a \"questions\" field of type array">>
        ELSE IF Len(questions.v) = 0
        THEN <<"Configuration must", " have at least one question">>
        ELSE IF bad # {}
        THEN LET last == CHOOSE i \in bad : \A j \in bad : i >= j
             IN  ValidateQuestion(questions.v[last], last - 1)
        ELSE NoThrow

\* a validateConfig that looks at the questions before it looks at the title
ValidateConfigQuestionsFirst(config) ==
    LET title == Get(config, "title")
        questions == Get(config, "questions")
        bad == {i \in 1..Len(questions.v) : ValidateQuestion(questions.v[i], i - 1) # NoThrow}
    IN  IF Falsy(config) \/ TypeOf(config) # "object"
        THEN <<"Configuration must", " be an object">>
        ELSE IF ~IsArray(questions)
        THEN <<"Configuration must", " have a \"questions\" field of type array">>
        ELSE IF Len(questions.v) = 0
        THEN <<"Configuration must", " have at least one question">>
        ELSE IF Falsy(title) \/ TypeOf(title) # "string"
        THEN <<"Configuration must", " have a \"title\" field of type string">>
        ELSE IF bad # {}
        THEN LET first == CHOOSE i \in bad : \A j \in bad : i <= j
             IN  ValidateQuestion(questions.v[first], first - 1)
        ELSE NoThrow

ValidateConfig(config) ==
    LET title == Get(config, "title")
        questions == Get(config, "questions")
        bad == {i \in 1..Len(questions.v) : ValidateQuestion(questions.v[i], i - 1) # NoThrow}
    IN  IF Falsy(config) \/ TypeOf(config) # "object"
        THEN <<"Configuration must", " be an object">>
        ELSE IF Falsy(title) \/ TypeOf(title) # "string"
        THEN <<"Configuration must", " have a \"title\" field of type string">>
        ELSE IF ~IsArray(questions)
        THEN <<"Configuration must", " have a \"questions\" field of type array">>
        ELSE IF Len(questions.v) = 0
        THEN <<"Configuration must", " have at least one question">>
        ELSE IF bad # {}
        THEN LET first == CHOOSE i \in bad : \A j \in bad : i <= j
             IN  ValidateQuestion(questions.v[first], first - 1)
        ELSE NoThrow

\* a load that rethrows the error of readFile as it is
LoadRethrows(f, filePath) ==
    IF f.state = "absent"
    THEN [ok |-> FALSE, config |-> Undefined,
          message |-> <<"ENOENT: no such file or directory, open '">> \o filePath \o <<"'">>]
    ELSE IF f.state = "unreadable"
    THEN [ok |-> FALSE, config |-> Undefined, message |-> f.value.v]
    ELSE LET parsed == JsonParse(f.content)
         IN  IF ~parsed.ok
             THEN [ok |-> FALSE, config |-> Undefined,
                   message |-> <<"Failed to parse JSON", ": ">> \o parsed.message]
             ELSE IF ValidateConfig(parsed.value) # NoThrow
             THEN [ok |-> FALSE, config |-> Undefined,
                   message |-> ValidateConfig(parsed.value)]
             ELSE [ok |-> TRUE, config |-> parsed.value, message |-> <<>>]

\* a load that gives every question a list of choices
LoadWithChoices(f, filePath) ==
    IF f.state = "absent"
    THEN [ok |-> FALSE, config |-> Undefined,
          message |-> <<"Configuration file not found", ": ">> \o filePath]
    ELSE IF f.state = "unreadable"
    THEN [ok |-> FALSE, config |-> Undefined, message |-> f.value.v]
    ELSE LET parsed == JsonParse(f.content)
             questions == Get(parsed.value, "questions").v
             filled == [i \in 1..Len(questions) |->
                          Obj([choices |-> Arr(<<>>)] @@ questions[i].v)]
         IN  IF ~parsed.ok
             THEN [ok |-> FALSE, config |-> Undefined,
                   message |-> <<"Failed to parse JSON", ": ">> \o parsed.message]
             ELSE IF ValidateConfig(parsed.value) # NoThrow
             THEN [ok |-> FALSE, config |-> Undefined,
                   message |-> ValidateConfig(parsed.value)]
             ELSE [ok |-> TRUE,
                   config |-> Obj([title |-> Get(parsed.value, "title"),
                                   questions |-> Arr(filled)]),
                   message |-> <<>>]

\* What load(filePath) does with the file `f` found at filePath: the
\* QuestionnaireConfig it resolves to, or the message of the Error it rejects with.
Load(f, filePath) ==
    IF f.state = "absent"
    THEN [ok |-> FALSE, config |-> Undefined,
          message |-> <<"Configuration file not found", ": ">> \o filePath]
    ELSE IF f.state = "unreadable"
    THEN [ok |-> FALSE, config |-> Undefined, message |-> f.value.v]
    ELSE LET parsed == JsonParse(f.content)
         IN  IF ~parsed.ok
             THEN [ok |-> FALSE, config |-> Undefined,
                   message |-> <<"Failed to parse JSON", ": ">> \o parsed.message]
             ELSE IF ValidateConfig(parsed.value) # NoThrow
             THEN [ok |-> FALSE, config |-> Undefined,
                   message |-> ValidateConfig(parsed.value)]
             ELSE [ok |-> TRUE, config |-> parsed.value, message |-> <<>>]

(***************************************************************************)
(* ResponseValidator.                                                      *)
(***************************************************************************)
Valid == [isValid |-> TRUE, errorMessage |-> <<>>]

Invalid(errorMessage) == [isValid |-> FALSE, errorMessage |-> errorMessage]

EmptyInputMessage == <<"Input cannot be empty. Please provide an answer.">>

\* a validateText that takes a single word only
ValidateTextNoBlanks(input) ==
    IF \E i \in 1..Len(input) : input[i] \in WhiteSpace
    THEN Invalid(<<"Input must be a single word.">>)
    ELSE Valid

ValidateText(input) == Valid

\* a validateYesNo that compares without lower-casing
ValidateYesNoCaseSensitive(input) ==
    LET validAnswers == << <<"y", "e", "s">>, <<"n", "o">>, <<"y">>, <<"n">> >>
    IN  IF \E i \in 1..Len(validAnswers) : validAnswers[i] = input
        THEN Valid
        ELSE Invalid(<<"Invalid input. Expected: yes, no, y, or n (case-insensitive). Please try again.">>)

ValidateYesNo(input) ==
    LET normalizedInput == ToLowerCase(input)
        validAnswers == << <<"y", "e", "s">>, <<"n", "o">>, <<"y">>, <<"n">> >>
    IN  IF \E i \in 1..Len(validAnswers) : validAnswers[i] = normalizedInput
        THEN Valid
        ELSE Invalid(<<"Invalid input. Expected: yes, no, y, or n (case-insensitive). Please try again.">>)

\* the strings of an array of JSON strings
Strings(a) == [i \in 1..Len(a) |-> a[i].v]

\* a validateMultipleChoice that compares lower-cased
ValidateMultipleChoiceAnyCase(input, question) ==
    LET choices == Get(question, "choices")
    IN  IF Falsy(choices) \/ Len(choices.v) = 0
        THEN Invalid(<<"No choices defined for this question.">>)
        ELSE IF \E i \in 1..Len(choices.v) : ToLowerCase(choices.v[i].v) = ToLowerCase(input)
        THEN Valid
        ELSE Invalid(<<"Invalid choice. Expected one of: ">>
                        \o Join(Strings(choices.v), <<", ">>)
                        \o <<". Please try again.">>)

ValidateMultipleChoice(input, question) ==
    LET choices == Get(question, "choices")
    IN  IF Falsy(choices) \/ Len(choices.v) = 0
        THEN Invalid(<<"No choices defined for this question.">>)
        ELSE IF \E i \in 1..Len(choices.v) : choices.v[i] = Str(input)
        THEN Valid
        ELSE Invalid(<<"Invalid choice. Expected one of: ">>
                        \o Join(Strings(choices.v), <<", ">>)
                        \o <<". Please try again.">>)

\* a validate that looks at the kind before it looks at the input
ValidateKindFirst(input, question) ==
    LET trimmedInput == Trim(input)
        type == Get(question, "type").v
    IN  IF type = <<"text">>
        THEN (IF trimmedInput = <<>> THEN Invalid(EmptyInputMessage) ELSE ValidateText(trimmedInput))
        ELSE IF type = <<"yesno">> THEN ValidateYesNo(trimmedInput)
        ELSE IF type = <<"multiple-choice">> THEN ValidateMultipleChoice(trimmedInput, question)
        ELSE Invalid(<<"Unknown question type: ">> \o type)

Validate(input, question) ==
    LET trimmedInput == Trim(input)
        type == Get(question, "type").v
    IN  IF trimmedInput = <<>> THEN Invalid(EmptyInputMessage)
        ELSE IF type = <<"text">> THEN ValidateText(trimmedInput)
        ELSE IF type = <<"yesno">> THEN ValidateYesNo(trimmedInput)
        ELSE IF type = <<"multiple-choice">> THEN ValidateMultipleChoice(trimmedInput, question)
        ELSE Invalid(<<"Unknown question type: ">> \o type)

(***************************************************************************)
(* Map<string, string>: the entries in insertion order.                    *)
(***************************************************************************)
MapHas(m, k) == \E i \in 1..Len(m) : m[i].key = k

MapGet(m, k) == m[CHOOSE i \in 1..Len(m) : m[i].key = k].value

MapSet(m, k, v) ==
    IF MapHas(m, k)
    THEN [i \in 1..Len(m) |-> IF m[i].key = k THEN [key |-> k, value |-> v] ELSE m[i]]
    ELSE Append(m, [key |-> k, value |-> v])

(***************************************************************************)
(* ConditionEvaluator.                                                     *)
(***************************************************************************)
\* a shouldDisplay that shows a question whose referenced answer is missing
ShouldDisplayUnanswered(question, responses) ==
    LET condition == Get(question, "condition")
        questionId == Get(condition, "questionId").v
        expectedAnswer == Get(condition, "expectedAnswer")
        expectedAnswers == IF IsArray(expectedAnswer)
                           THEN Strings(expectedAnswer.v)
                           ELSE <<expectedAnswer.v>>
    IN  IF Falsy(condition) THEN TRUE
        ELSE IF ~MapHas(responses, questionId) THEN TRUE
        ELSE \E i \in 1..Len(expectedAnswers) :
                Trim(ToLowerCase(expectedAnswers[i]))
                    = Trim(ToLowerCase(MapGet(responses, questionId)))

\* a shouldDisplay that compares the answer as it is stored
ShouldDisplayExact(question, responses) ==
    LET condition == Get(question, "condition")
        questionId == Get(condition, "questionId").v
        expectedAnswer == Get(condition, "expectedAnswer")
        expectedAnswers == IF IsArray(expectedAnswer)
                           THEN Strings(expectedAnswer.v)
                           ELSE <<expectedAnswer.v>>
    IN  IF Falsy(condition) THEN TRUE
        ELSE IF ~MapHas(responses, questionId) THEN FALSE
        ELSE \E i \in 1..Len(expectedAnswers) :
                expectedAnswers[i] = MapGet(responses, questionId)

\* a shouldDisplay that hides a question without condition once answers exist
ShouldDisplayFirstOnly(question, responses) ==
    LET condition == Get(question, "condition")
        questionId == Get(condition, "questionId").v
        expectedAnswer == Get(condition, "expectedAnswer")
        expectedAnswers == IF IsArray(expectedAnswer)
                           THEN Strings(expectedAnswer.v)
                           ELSE <<expectedAnswer.v>>
    IN  IF Falsy(condition) THEN responses = <<>>
        ELSE IF ~MapHas(responses, questionId) THEN FALSE
        ELSE \E i \in 1..Len(expectedAnswers) :
                Trim(ToLowerCase(expectedAnswers[i]))
                    = Trim(ToLowerCase(MapGet(responses, questionId)))

\* a shouldDisplay that compares a single expected string as it is written
ShouldDisplaySingleExact(question, responses) ==
    LET condition == Get(question, "condition")
        questionId == Get(condition, "questionId").v
        expectedAnswer == Get(condition, "expectedAnswer")
    IN  IF Falsy(condition) THEN TRUE
        ELSE IF ~MapHas(responses, questionId) THEN FALSE
        ELSE IF IsArray(expectedAnswer)
        THEN \E i \in 1..Len(expectedAnswer.v) :
                Trim(ToLowerCase(expectedAnswer.v[i].v))
                    = Trim(ToLowerCase(MapGet(responses, questionId)))
        ELSE expectedAnswer.v = MapGet(responses, questionId)

ShouldDisplay(question, responses) ==
    LET condition == Get(question, "condition")
        questionId == Get(condition, "questionId").v
        expectedAnswer == Get(condition, "expectedAnswer")
        expectedAnswers == IF IsArray(expectedAnswer)
                           THEN Strings(expectedAnswer.v)
                           ELSE <<expectedAnswer.v>>
    IN  IF Falsy(condition) THEN TRUE
        ELSE IF ~MapHas(responses, questionId) THEN FALSE
        ELSE \E i \in 1..Len(expectedAnswers) :
                Trim(ToLowerCase(expectedAnswers[i]))
                    = Trim(ToLowerCase(MapGet(responses, questionId)))

(***************************************************************************)
(* Configuration files the process may find at CONFIG_PATH, and the lines  *)
(* the operator may type.                                                  *)
(***************************************************************************)
ConfigPath == <<"questionnaire.json">>

Yes == <<"y", "e", "s">>
Dog == <<"D", "o", "g">>
Cat == <<"C", "a", "t">>
Bird == <<"B", "i", "r", "d">>

Question(id, text, type) ==
    [id |-> Str(<<id>>), text |-> Str(<<text>>), type |-> Str(<<type>>)]

Condition(questionId, expectedAnswer) ==
    Obj([questionId |-> Str(<<questionId>>), expectedAnswer |-> expectedAnswer])

\* the file the tests write: writeFile(path, JSON.stringify(x))
JsonFile(x) == [state |-> "readable", content |-> Stringify(x)]

Document(title, questions) ==
    Obj([title |-> Str(<<title>>), questions |-> Arr(questions)])

\* q1 text, q2 yesno, q3 multiple-choice shown when q2 is yes or y
SampleDocument ==
    Document("Test Questionnaire",
           << Obj(Question("q1", "What is your name?", "text")),
              Obj(Question("q2", "Do you have a pet?", "yesno")),
              Obj(Question("q3", "What kind of pet?", "multiple-choice")
                    @@ [choices |-> Arr(<<Str(Dog), Str(Cat), Str(Bird)>>),
                        condition |-> Condition("q2", Arr(<<Str(Yes), Str(<<"y">>)>>))]) >>)

\* a chain of conditions: b depends on a, c on b, d on c
ChainDocument ==
    Document("Chain",
           << Obj(Question("a", "Do you have a pet?", "yesno")),
              Obj(Question("b", "Is it a dog?", "yesno")
                    @@ [condition |-> Condition("a", Str(<<" ", "Y", "E", "S">>))]),
              Obj(Question("c", "Its name?", "text")
                    @@ [condition |-> Condition("b", Arr(<<Str(Yes), Str(<<"n">>)>>))]),
              Obj(Question("d", "Its breed?", "text")
                    @@ [condition |-> Condition("c", Arr(<<Str(Dog), Str(<<"n">>), Str(Yes)>>))]) >>)

\* two questions with the same id
DuplicateIdDocument ==
    Document("Duplicate",
           << Obj(Question("q1", "Do you agree?", "yesno")),
              Obj(Question("q2", "Why?", "text")
                    @@ [condition |-> Condition("q1", Arr(<<Str(Yes)>>))]),
              Obj(Question("q2", "Anything else?", "text")) >>)

\* conditions that refer to the question itself, to a later one, to no question
ReferenceDocument ==
    Document("References",
           << Obj(Question("q1", "Self?", "text")
                    @@ [condition |-> Condition("q1", Arr(<<Str(Yes)>>))]),
              Obj(Question("q2", "Later?", "text")
                    @@ [condition |-> Condition("q3", Arr(<<Str(Yes)>>))]),
              Obj(Question("q3", "Do you agree?", "yesno")),
              Obj(Question("q4", "Nobody?", "text")
                    @@ [condition |-> Condition("q9", Arr(<<Str(Yes)>>))]) >>)

\* a single question that is never shown
HiddenDocument ==
    Document("Hidden",
           << Obj(Question("q1", "Self?", "text")
                    @@ [condition |-> Condition("q1", Arr(<<Str(Yes)>>))]) >>)

ValidDocuments ==
    {SampleDocument, ChainDocument, DuplicateIdDocument, ReferenceDocument, HiddenDocument}

SampleConfig == JsonFile(SampleDocument)

ChainConfig == JsonFile(ChainDocument)

DuplicateIdConfig == JsonFile(DuplicateIdDocument)

ReferenceConfig == JsonFile(ReferenceDocument)

HiddenConfig == JsonFile(HiddenDocument)

\* a multiple-choice question whose choices are strings no trimmed line equals:
\* one with blanks around it, one empty
UnmatchableDocument ==
    Document("Unmatchable",
           << Obj(Question("q1", "What kind of pet?", "multiple-choice")
                    @@ [choices |-> Arr(<<Str(<<" ", "D", "o", "g", " ">>), Str(<<>>)>>)]) >>)

UnmatchableConfig == JsonFile(UnmatchableDocument)

ValidFiles == {SampleConfig, ChainConfig, DuplicateIdConfig, ReferenceConfig, HiddenConfig}

\* values that violate the shape of a questionnaire document
InvalidDocuments ==
    { Null,
      Arr(<<>>),
      Obj([questions |-> Arr(<<>>)]),
      Obj([title |-> Str(<<"T">>), questions |-> Str(<<"q">>)]),
      Document("T", <<>>),
      Document("T", << Obj(Question("q1", "Name?", "text")), Str(<<"q2">>) >>),
      Document("T", << Obj([text |-> Str(<<"Name?">>), type |-> Str(<<"text">>)]) >>),
      Document("T", << Obj(Question("q1", "Name?", "text")), Obj(Question("q2", "", "text")) >>),
      Document("T", << Obj(Question("q1", "Name?", "number")) >>),
      Document("T", << Obj(Question("q1", "Pet?", "multiple-choice")) >>),
      Document("T", << Obj(Question("q1", "Pet?", "multiple-choice")
                            @@ [choices |-> Arr(<<Str(Dog), Num(2)>>)]) >>),
      Document("T", << Obj(Question("q1", "Name?", "text")),
                     Obj(Question("q2", "Pet?", "yesno") @@ [condition |-> Null]) >>),
      Document("T", << Obj(Question("q1", "Name?", "text")),
                     Obj(Question("q2", "Pet?", "yesno")
                           @@ [condition |-> Obj([questionId |-> Str(<<"q1">>)])]) >>),
      Document("T", << Obj(Question("q1", "Name?", "text")),
                     Obj(Question("q2", "Pet?", "yesno")
                           @@ [condition |-> Condition("q1", Arr(<<>>))]) >>) }

\* no file, a file that cannot be read, and files whose bytes are not JSON
\* ('{"title": "Test"' and '{ invalid json }')
UnparsedFiles ==
    { [state |-> "absent", value |-> Undefined],
      [state |-> "unreadable",
       value |-> Str(<<"EACCES: permission denied, open '">> \o ConfigPath \o <<"'">>)],
      [state |-> "readable",
       content |-> <<Tok("{"), StrTok(<<"title">>), Tok(":"), StrTok(<<"Test">>)>>],
      [state |-> "readable", content |-> <<Tok("{"), Tok("invalid"), Tok("json"), Tok("}")>>] }

InvalidFiles == UnparsedFiles \cup {JsonFile(d) : d \in InvalidDocuments}

Files == ValidFiles \cup InvalidFiles

RawInputs == { <<>>, <<" ", "Y", "e", "s", " ">>, <<"n">>, Dog }

(***************************************************************************)
(* State.                                                                  *)
(*   file          the configuration file at CONFIG_PATH                   *)
(*   pc            where start() is suspended: "loading" (runSession awaits*)
(*                 load), "question" (promptWithValidation awaits prompt), *)
(*                 "again" (start awaits the new-session prompt), "retry"  *)
(*                 (start awaits the try-again prompt), "exited"           *)
(*   sessionCount  start's sessionCount                                    *)
(*   config        runSession's config                                     *)
(*   responses     runSession's responses                                  *)
(*   qi            position of runSession's for loop (1-based)             *)
(*   pending       the line readline has delivered to the awaited prompt   *)
(*   closed        the readline interface has been closed                  *)
(*   exitCode      the argument of process.exit                            *)
(*   result        the SessionResult runSession returned in this iteration *)
(*   calls         the calls made on the input handler and the console in  *)
(*                 this iteration of the session loop, in order            *)
(*   evals         the shouldDisplay calls of this session, in order       *)
(*   inputs        the lines promptWithValidation received in this session,*)
(*                 in order, each with the question it was prompting and   *)
(*                 whether it returned the line                            *)
(* calls, evals and inputs record what the program did; it reads none.     *)
(*                                                                         *)
(* A function called on its own, as the unit tests call validate and       *)
(* shouldDisplay, outside any process:                                     *)
(*   args          the function and the arguments it is called with        *)
(*   ret           what the call returned, once it has                     *)
(***************************************************************************)
VARIABLES file, pc, sessionCount, config, responses, qi, pending, closed,
          exitCode, result, calls, evals, inputs, args, ret, caller, sessionId

vars == <<file, pc, sessionCount, config, responses, qi, pending, closed,
          exitCode, result, calls, evals, inputs, args, ret, caller, sessionId>>

\* the call has not returned / has returned v
NoReturn == [done |-> FALSE]

Return(v) == [done |-> TRUE, value |-> v]

\* start() runs; no function is called on its own
NoCall == [fn |-> "none"]

Call(op, msg, q) == [op |-> op, msg |-> msg, q |-> q]

\* the displayError calls among the calls cs
Rejects(cs) == Cardinality({i \in 1..Len(cs) : cs[i].op = "displayError"})

\* the lines among ins that promptWithValidation did not return
Refused(ins) == Cardinality({i \in 1..Len(ins) : ~ins[i].accepted})

Questions(cfg) == Get(cfg, "questions").v

QuestionId(question) == Get(question, "id").v

(***************************************************************************)
(* SessionResult.                                                          *)
(***************************************************************************)
\* runSession's default sessionId: a fresh identifier for each call
SessionId(n) == <<"uuid-">> \o NumToStr(n)

\* a runSession that ignores its argument
SessionIdGenerated(supplied, n) == SessionId(n)

\* runSession(sessionId: string = randomUUID()): the default stands in for an
\* argument that is omitted
SessionIdOf(supplied, n) == IF supplied = Undefined THEN SessionId(n) ELSE supplied.v

SessionResult(id, resp, cfg) == [id |-> id, responses |-> resp, config |-> cfg]

\* a json() that lists the newest entry first
JsonNewestFirst(res) ==
    LET qs == Questions(res.config)
        n == Len(res.responses)
        F[i \in 0..n] ==
            IF i = 0 THEN <<>>
            ELSE LET entry == res.responses[n + 1 - i]
                     found == {k \in 1..Len(qs) : QuestionId(qs[k]) = entry.key}
                 IN  IF found = {} THEN F[i - 1]
                     ELSE Append(F[i - 1],
                                 [question |-> Get(qs[CHOOSE k \in found : \A l \in found : k <= l],
                                                   "text").v,
                                  answer |-> entry.value])
    IN  F[n]

\* a json() that keeps the entries it cannot resolve, without a question text
JsonKeepsUnknown(res) ==
    LET qs == Questions(res.config)
        F[i \in 0..Len(res.responses)] ==
            IF i = 0 THEN <<>>
            ELSE LET found == {k \in 1..Len(qs) : QuestionId(qs[k]) = res.responses[i].key}
                 IN  Append(F[i - 1],
                            [question |-> IF found = {} THEN <<>>
                                          ELSE Get(qs[CHOOSE k \in found : \A l \in found : k <= l],
                                                   "text").v,
                             answer |-> res.responses[i].value])
    IN  F[Len(res.responses)]

Json(res) ==
    LET qs == Questions(res.config)
        F[i \in 0..Len(res.responses)] ==
            IF i = 0 THEN <<>>
            ELSE LET found == {k \in 1..Len(qs) : QuestionId(qs[k]) = res.responses[i].key}
                 IN  IF found = {} THEN F[i - 1]
                     ELSE Append(F[i - 1],
                                 [question |-> Get(qs[CHOOSE k \in found : \A l \in found : k <= l],
                                                   "text").v,
                                  answer |-> res.responses[i].value])
    IN  F[Len(res.responses)]

(***************************************************************************)
(* main.ts: displaySessionSummary and the decisions of start().            *)
(***************************************************************************)
SessionSummary(res) ==
    LET pairs == Json(res)
        line(i) == NumToStr(i) \o <<". ">> \o pairs[i].question
                      \o <<"\n   Answer: ">> \o pairs[i].answer \o <<"\n">>
        F[i \in 0..Len(pairs)] == IF i = 0 THEN <<>> ELSE F[i - 1] \o line(i)
    IN  <<"SESSION SUMMARY\n", "Session ID: ">> \o res.id \o <<"\n">> \o F[Len(pairs)]

NewSessionPrompt == <<"Would you like to start a new session? (yes/no): ">>

RetryPrompt == <<"An error occurred. Would you like to try again? (yes/no): ">>

Farewell == <<"\nThank you for using the Questionnaire Engine. Goodbye!">>

\* the test of main.ts on the message of a session error: unrecoverable
IsConfigError(message) ==
    \/ Includes(message, <<"Configuration file not found">>)
    \/ Includes(message, <<"Failed to parse JSON">>)
    \/ Includes(message, <<"Configuration must">>)

\* a reply test that does not trim
SaysYesUntrimmed(response) ==
    LET normalizedResponse == ToLowerCase(response)
    IN  normalizedResponse = Yes \/ normalizedResponse = <<"y">>

\* normalizedResponse === 'yes' || normalizedResponse === 'y'
SaysYes(response) ==
    LET normalizedResponse == ToLowerCase(Trim(response))
    IN  normalizedResponse = Yes \/ normalizedResponse = <<"y">>

(***************************************************************************)
(* QuestionnaireEngine.                                                    *)
(***************************************************************************)
PromptMessage(question) ==
    LET type == Get(question, "type").v
        choices == Get(question, "choices")
    IN  Get(question, "text").v
          \o (IF type = <<"multiple-choice">> /\ ~Falsy(choices)
              THEN <<"\nChoices: ">> \o Join(Strings(choices.v), <<", ">>)
              ELSE IF type = <<"yesno">> THEN <<" (yes/no)">>
              ELSE <<>>)
          \o <<"\n> ">>

\* a runSession that evaluates no condition
SkipsNothing(question, resp) == FALSE

\* runSession skips the question
Skips(question, resp) == ~ShouldDisplay(question, resp)

\* a promptWithValidation that returns whatever is typed
AcceptsAnything(input, question) == TRUE

\* a promptWithValidation that never returns
AcceptsNothing(input, question) == FALSE

\* promptWithValidation returns the input
Accepts(input, question) == Validate(input, question).isValid

\* a promptWithValidation that returns the raw line
ReturnedRaw(input) == input

\* what promptWithValidation returns for an accepted input
Returned(input) == Trim(input)

\* a promptWithValidation that retries without a word
ErrorShownNever(validationResult, log, q) == log

\* if (validationResult.errorMessage) displayError(validationResult.errorMessage)
ErrorShown(validationResult, log, q) ==
    IF validationResult.errorMessage # <<>>
    THEN Append(log, Call("displayError", validationResult.errorMessage, q))
    ELSE log

\* a runSession that goes on with the Map of the previous call
LeakedResponses == responses

\* the Map runSession starts from
NewResponses == <<>>

\* a runSession that wraps the loader's error
SessionErrorWrapped(message) == <<"Session failed: ">> \o message

\* the message of the error runSession rejects with when load rejects with
\* `message`: the await is in no try block
SessionError(message) == message

\* a runSession that displays the bare title
SessionTitleBare(cfg) == Get(cfg, "title").v

\* what runSession displays once the document is loaded
SessionTitle(cfg) == <<"\n=== ">> \o Get(cfg, "title").v \o <<" ===\n">>

\* the first question at or after position i that runSession does not skip,
\* Len + 1 when it skips them all
RECURSIVE NextShown(_, _, _)
NextShown(cfg, resp, i) ==
    IF i > Len(Questions(cfg)) THEN i
    ELSE IF Skips(Questions(cfg)[i], resp) THEN NextShown(cfg, resp, i + 1)
    ELSE i

\* a loop that evaluates the questions from the first one again after every answer
EvaluatedFromStart(cfg, resp, i) ==
    LET j == NextShown(cfg, resp, i)
        last == IF j > Len(Questions(cfg)) THEN Len(Questions(cfg)) ELSE j
    IN  [k \in 1..last |-> [q |-> k, answers |-> resp, skipped |-> Skips(Questions(cfg)[k], resp)]]

\* the shouldDisplay calls runSession makes from position i on, up to the next prompt
Evaluated(cfg, resp, i) ==
    LET j == NextShown(cfg, resp, i)
        last == IF j > Len(Questions(cfg)) THEN Len(Questions(cfg)) ELSE j
    IN  [k \in 1..(last - i + 1) |->
            [q |-> i + k - 1, answers |-> resp, skipped |-> (i + k - 1 < j)]]

\* runSession's for loop from position i with the responses resp, `log` being
\* the calls made so far: up to the next prompt of a question, or to the end of
\* the session, its summary and the new-session prompt of start()
RunLoop(cfg, resp, i, log) ==
    LET j == NextShown(cfg, resp, i)
        res == SessionResult(SessionIdOf(sessionId, sessionCount), resp, cfg)
    IN  /\ evals' = evals \o Evaluated(cfg, resp, i)
        /\ qi' = j
        /\ IF j <= Len(Questions(cfg))
           THEN /\ pc' = "question"
                /\ result' = Undefined
                /\ calls' = Append(log, Call("prompt", PromptMessage(Questions(cfg)[j]), j))
           ELSE IF caller = "start"
           THEN /\ pc' = "again"
                /\ result' = res
                /\ calls' = log \o << Call("console.log", SessionSummary(res), 0),
                                      Call("prompt", NewSessionPrompt, 0) >>
           ELSE /\ pc' = "returned"
                /\ result' = res
                /\ calls' = log

(***************************************************************************)
(* The process.  Init is start() suspended at its first await: the         *)
(* handler and the engine are constructed, sessionCount is 1 and           *)
(* runSession awaits the configuration loader.                             *)
(***************************************************************************)
Init ==
    /\ file \in Files
    /\ pc = "loading"
    /\ sessionCount = 1
    /\ config = Undefined
    /\ responses = <<>>
    /\ qi = 0
    /\ pending = Undefined
    /\ closed = FALSE
    /\ exitCode = -1
    /\ result = Undefined
    /\ calls = <<>>
    /\ evals = <<>>
    /\ inputs = <<>>
    /\ args = NoCall
    /\ ret = NoReturn
    /\ caller = "start"
    /\ sessionId = Undefined

\* a process.exit(code) that leaves the readline interface open
ExitWithoutClose(code, log) ==
    /\ pc' = "exited"
    /\ closed' = closed
    /\ exitCode' = code
    /\ calls' = log

\* inputHandler.close(); process.exit(code)
Exit(code, log) ==
    /\ pc' = "exited"
    /\ closed' = TRUE
    /\ exitCode' = code
    /\ calls' = Append(log, Call("close", <<>>, 0))

\* the next iteration of the session loop: sessionCount++, runSession() up to
\* its await of load
NextSession ==
    /\ pc' = "loading"
    /\ sessionCount' = sessionCount + 1
    /\ result' = Undefined
    /\ calls' = <<>>
    /\ evals' = <<>>
    /\ inputs' = <<>>
    /\ qi' = 0

\* the clean exit of start(): the farewell, close, process.exit(0)
CleanExit ==
    /\ Exit(0, Append(calls, Call("display", Farewell, 0)))
    /\ UNCHANGED <<sessionCount, result, evals, inputs, qi>>

\* load settles.  runSession goes on to its first prompt (or to its end), or
\* the rejection reaches the catch of start().
LoadReturns ==
    /\ pc = "loading"
    /\ LET loaded == Load(file, ConfigPath)
           sessionError == SessionError(loaded.message)
           shown == Append(calls, Call("console.error",
                                       <<"\nError: ">> \o sessionError \o <<"\n">>, 0))
       IN  IF loaded.ok
           THEN /\ config' = loaded.config
                /\ responses' = NewResponses
                /\ RunLoop(loaded.config, NewResponses, 1,
                           Append(calls, Call("display", SessionTitle(loaded.config), 0)))
                /\ UNCHANGED <<closed, exitCode>>
           ELSE IF caller = "test"
           THEN /\ pc' = "rejected"
                /\ UNCHANGED <<config, responses, qi, result, evals, closed, exitCode, calls>>
           ELSE IF IsConfigError(sessionError)
           THEN /\ Exit(1, shown)
                /\ UNCHANGED <<config, responses, qi, result, evals>>
           ELSE /\ pc' = "retry"
                /\ calls' = Append(shown, Call("prompt", RetryPrompt, 0))
                /\ UNCHANGED <<config, responses, qi, result, evals, closed, exitCode>>
    /\ UNCHANGED <<caller, sessionId, args, ret, file, sessionCount, pending, inputs>>

\* the operator types a line at the awaited prompt
UserTypes ==
    /\ pc \in {"question", "again", "retry"}
    /\ pending = Undefined
    /\ \E raw \in RawInputs :
        /\ pc = "question" =>
              Accepts(raw, Questions(config)[qi]) \/ Refused(inputs) < MaxRejects
        /\ pc \in {"again", "retry"} => (SaysYes(raw) => sessionCount < MaxSessions)
        /\ pending' = Str(raw)
    /\ UNCHANGED <<caller, sessionId, args, ret, file, pc, sessionCount, config, responses, qi, closed,
                   exitCode, result, calls, evals, inputs>>

\* promptWithValidation resumes with the line: the answer is stored and
\* runSession goes on, or the error is displayed and the question asked again
OnAnswer ==
    /\ pc = "question"
    /\ pending # Undefined
    /\ LET input == pending.v
           question == Questions(config)[qi]
           validationResult == Validate(input, question)
           stored == MapSet(responses, QuestionId(question), Returned(input))
           again == Append(ErrorShown(validationResult, calls, qi),
                           Call("prompt", PromptMessage(question), qi))
       IN  IF Accepts(input, question)
           THEN /\ responses' = stored
                /\ inputs' = Append(inputs, [q |-> qi, raw |-> input, accepted |-> TRUE])
                /\ RunLoop(config, stored, qi + 1, calls)
           ELSE \* the record keeps the first MaxRejects rejections of a session
                /\ calls' = IF Refused(inputs) < MaxRejects THEN again ELSE calls
                /\ inputs' = IF Refused(inputs) < MaxRejects
                             THEN Append(inputs, [q |-> qi, raw |-> input, accepted |-> FALSE])
                             ELSE inputs
                /\ UNCHANGED <<pc, responses, qi, result, evals>>
    /\ pending' = Undefined
    /\ UNCHANGED <<caller, sessionId, args, ret, file, sessionCount, config, closed, exitCode>>

\* start() resumes with the reply to the new-session prompt
OnNewSessionReply ==
    /\ pc = "again"
    /\ pending # Undefined
    /\ IF SaysYes(pending.v)
       THEN NextSession /\ UNCHANGED <<closed, exitCode>>
       ELSE CleanExit
    /\ pending' = Undefined
    /\ UNCHANGED <<caller, sessionId, args, ret, file, config, responses>>

\* start() resumes with the reply to the try-again prompt
OnRetryReply ==
    /\ pc = "retry"
    /\ pending # Undefined
    /\ IF SaysYes(pending.v)
       THEN NextSession /\ UNCHANGED <<closed, exitCode>>
       ELSE CleanExit
    /\ pending' = Undefined
    /\ UNCHANGED <<caller, sessionId, args, ret, file, config, responses>>

\* what the SIGINT handler displays
Goodbye == <<"\n\nGoodbye!">>

\* SIGINT on the readline interface
Interrupt ==
    /\ pc # "exited"
    /\ pending = Undefined
    /\ Exit(0, Append(calls, Call("display", Goodbye, 0)))
    /\ UNCHANGED <<caller, sessionId, args, ret, file, sessionCount, config, responses, qi, pending, result,
                   evals, inputs>>

Next ==
    \/ LoadReturns
    \/ UserTypes
    \/ OnAnswer
    \/ OnNewSessionReply
    \/ OnRetryReply
    \/ Interrupt

Spec == Init /\ [][Next]_vars

(***************************************************************************)
(* The process with an input handler whose prompt can fail: rl.question    *)
(* throws in the executor of the promise prompt() returns (the interface   *)
(* is no longer usable), so the awaited promise rejects.                   *)
(***************************************************************************)
\* the message of the error the prompt rejects with
PromptError == <<"readline was closed">>

\* the outer catch of start(): close, the fatal error, process.exit(1)
FatalExit(message) ==
    /\ pc' = "exited"
    /\ closed' = TRUE
    /\ exitCode' = 1
    /\ calls' = calls \o << Call("close", <<>>, 0),
                            Call("console.error", <<"\nFatal error: ">> \o message \o <<"\n">>, 0) >>

\* the awaited prompt rejects.  Inside runSession or at the new-session prompt
\* the rejection reaches the inner catch of start(), which shows the error and
\* the try-again prompt; at the try-again prompt it reaches the outer catch.
PromptFails ==
    /\ pc \in {"question", "again", "retry"}
    /\ pending = Undefined
    /\ IF pc = "retry"
       THEN FatalExit(PromptError)
       ELSE /\ pc' = "retry"
            /\ calls' = calls \o << Call("console.error",
                                          <<"\nError: ">> \o PromptError \o <<"\n">>, 0),
                                     Call("prompt", RetryPrompt, 0) >>
            /\ UNCHANGED <<closed, exitCode>>
    /\ UNCHANGED <<caller, sessionId, args, ret, file, sessionCount, config, responses, qi, pending,
                   result, evals, inputs>>

FaultNext == Next \/ PromptFails

FaultSpec == Init /\ [][FaultNext]_vars

(***************************************************************************)
(* The process with an operator who never interrupts and may go on typing  *)
(* rejected lines without end (the record of a session keeps the first     *)
(* MaxRejects rejections), who at every prompt of a question eventually    *)
(* types a line that validate accepts, and with an event loop that runs a  *)
(* continuation whose awaited promise has settled.                         *)
(***************************************************************************)
\* the operator types any line at the prompt of a question
TypesAnswer ==
    /\ pc = "question"
    /\ pending = Undefined
    /\ \E raw \in RawInputs : pending' = Str(raw)
    /\ UNCHANGED <<caller, sessionId, args, ret, file, pc, sessionCount, config, responses, qi, closed,
                   exitCode, result, calls, evals, inputs>>

\* the operator replies to the new-session or the try-again prompt
TypesReply ==
    /\ pc \in {"again", "retry"}
    /\ pending = Undefined
    /\ \E raw \in RawInputs :
        /\ SaysYes(raw) => sessionCount < MaxSessions
        /\ pending' = Str(raw)
    /\ UNCHANGED <<caller, sessionId, args, ret, file, pc, sessionCount, config, responses, qi, closed,
                   exitCode, result, calls, evals, inputs>>

\* the operator types a line that validate accepts for the prompted question
TypesValidAnswer ==
    /\ pc = "question"
    /\ pending = Undefined
    /\ \E raw \in RawInputs :
        /\ Validate(raw, Questions(config)[qi]).isValid
        /\ pending' = Str(raw)
    /\ UNCHANGED <<caller, sessionId, args, ret, file, pc, sessionCount, config, responses, qi, closed,
                   exitCode, result, calls, evals, inputs>>

\* the step OnAnswer takes, in the variables that tell it from every other
\* step: the engine consumes the line that arrived at the prompt of a question
AnswerHandled ==
    /\ pc = "question"
    /\ pending # Undefined
    /\ pending' = Undefined

NextUninterrupted ==
    \/ LoadReturns
    \/ TypesAnswer
    \/ TypesReply
    \/ OnAnswer
    \/ OnNewSessionReply
    \/ OnRetryReply

LiveSpec ==
    /\ Init
    /\ [][NextUninterrupted]_vars
    /\ WF_pending(AnswerHandled)
    /\ SF_vars(TypesValidAnswer)

\* the same process with an operator who owes no valid answer
UnfairSpec ==
    /\ Init
    /\ [][NextUninterrupted]_vars
    /\ WF_pending(AnswerHandled)
    /\ WF_vars(TypesAnswer)

(***************************************************************************)
(* runSession as a function of the document and of the lines its prompts   *)
(* resolve with.                                                           *)
(***************************************************************************)
\* what a session over the document cfg comes to when it is fed the lines
\* from the n-th on, `cur` being the question that awaits its answer, resp
\* the answers and prompts the questions prompted up to there: a function of
\* the document and the lines alone
RECURSIVE ReplayFrom(_, _, _, _, _, _)
ReplayFrom(cfg, lines, n, resp, cur, prompts) ==
    IF n > Len(lines) \/ cur > Len(Questions(cfg))
    THEN [responses |-> resp, prompts |-> prompts, qi |-> cur]
    ELSE IF Validate(lines[n], Questions(cfg)[cur]).isValid
    THEN LET recorded == MapSet(resp, QuestionId(Questions(cfg)[cur]), Trim(lines[n]))
             following == NextShown(cfg, recorded, cur + 1)
         IN  ReplayFrom(cfg, lines, n + 1, recorded, following,
                        IF following <= Len(Questions(cfg))
                        THEN Append(prompts, following) ELSE prompts)
    ELSE ReplayFrom(cfg, lines, n + 1, resp, cur, Append(prompts, cur))

Replay(cfg, lines) ==
    LET first == NextShown(cfg, <<>>, 1)
    IN  ReplayFrom(cfg, lines, 1, <<>>, first,
                   IF first <= Len(Questions(cfg)) THEN <<first>> ELSE <<>>)

(***************************************************************************)
(* validate and shouldDisplay called on their own, as the unit tests call  *)
(* them: on any question, whether or not a loader would accept it, on any  *)
(* line and on any Answer Set.                                             *)
(***************************************************************************)
\* blanks before and after a typed word
MaxPad == 1
\* entries of an Answer Set handed to shouldDisplay
MaxAnswers == 2

ToUpperChar(c) ==
    IF \E i \in 1..Len(LowerCase) : LowerCase[i] = c
    THEN UpperCase[CHOOSE i \in 1..Len(LowerCase) : LowerCase[i] = c]
    ELSE c

\* the word w in every letter case
RECURSIVE Cases(_)
Cases(w) ==
    IF w = <<>> THEN {<<>>}
    ELSE {<<c>> \o r : c \in {ToLowerChar(Head(w)), ToUpperChar(Head(w))},
                       r \in Cases(Tail(w))}

\* the runs of at most n blanks
RECURSIVE Pads(_)
Pads(n) ==
    IF n = 0 THEN {<<>>}
    ELSE Pads(n - 1) \cup {Append(p, c) : p \in Pads(n - 1), c \in WhiteSpace}

Padded(words) == {l \o w \o r : l \in Pads(MaxPad), w \in words, r \in Pads(MaxPad)}

No == <<"n", "o">>
Red == <<"R", "e", "d">>
Blue == <<"B", "l", "u", "e">>
Purple == <<"P", "u", "r", "p", "l", "e">>

UnitWords ==
    Cases(Yes) \cup Cases(No) \cup Cases(<<"y">>) \cup Cases(<<"n">>)
      \cup Cases(<<"y", "e">>) \cup Cases(<<"n", " ", "o">>)
      \cup Cases(Red) \cup Cases(Blue)
      \cup {<<"m", "a", "y", "b", "e">>, Purple, <<"1">>, <<"2">>, <<"3">>, <<>>}

UnitInputs == Padded(UnitWords)

TextQuestion == Obj(Question("q1", "What is your name?", "text"))

YesNoQuestion == Obj(Question("q2", "Do you agree?", "yesno"))

ColorQuestion ==
    Obj(Question("q3", "What is your favorite color?", "multiple-choice")
          @@ [choices |-> Arr(<<Str(Red), Str(Blue)>>)])

\* questions no loader accepts, which validate may still be handed
NoChoicesQuestion == Obj(Question("q4", "Which?", "multiple-choice"))

EmptyChoicesQuestion ==
    Obj(Question("q5", "Which?", "multiple-choice") @@ [choices |-> Arr(<<>>)])

UnknownKindQuestion == Obj(Question("q6", "How many?", "number"))

UnconditionalQuestions ==
    {TextQuestion, YesNoQuestion, ColorQuestion, NoChoicesQuestion,
     EmptyChoicesQuestion, UnknownKindQuestion}

ConditionalQuestions ==
    { Obj(Question("q3", "What kind of pet?", "multiple-choice")
            @@ [choices |-> Arr(<<Str(Dog), Str(Cat), Str(Bird)>>),
                condition |-> Condition("q2", Arr(<<Str(Yes), Str(<<"y">>)>>))]),
      Obj(Question("q3", "Its name?", "text")
            @@ [condition |-> Condition("q2", Str(<<" ", "Y", "e", "s", " ">>))]),
      Obj(Question("q3", "Walks?", "yesno")
            @@ [condition |-> Condition("q1", Arr(<<Str(Dog), Str(No)>>))]),
      Obj(Question("q3", "Nobody?", "text")
            @@ [condition |-> Condition("q9", Arr(<<Str(Yes)>>))]) }

AnswerKeys == {<<"q1">>, <<"q2">>, <<"q3">>}

AnswerValues == {Yes, <<"Y", "E", "S">>, <<" ", "y", "e", "s", " ">>, <<"y">>, No, Dog}

\* the Maps of at most n entries
RECURSIVE AnswerSets(_)
AnswerSets(n) ==
    IF n = 0 THEN {<<>>}
    ELSE AnswerSets(n - 1)
           \cup {Append(x[1], [key |-> x[2], value |-> x[3]]) :
                    x \in {y \in AnswerSets(n - 1) \X AnswerKeys \X AnswerValues :
                              ~MapHas(y[1], y[2])}}

\* documents of the loader tests, and documents with more than one defect
UnitDocuments ==
    { \* values with more than one defect at the top level
      Str(<<"Test">>),
      Num(5),
      Obj([questions |-> Str(<<"not an array">>)]),
      Obj([title |-> Num(1), questions |-> Arr(<< Obj([text |-> Str(<<"Name?">>)]) >>)]),
      Obj([title |-> Str(<<"Test">>)]),
      Obj([title |-> Str(<<>>), questions |-> Arr(<<>>)]),
      Arr(<< Obj(Question("q1", "Name?", "text")) >>),
      Document("Test Questionnaire", << Obj(Question("q1", "What is your name?", "text")) >>),
      Document("Multi-Question Test",
               << Obj(Question("q1", "Question 1?", "text")),
                  Obj(Question("q2", "Question 2?", "yesno")),
                  Obj(Question("q3", "Question 3?", "multiple-choice")
                        @@ [choices |-> Arr(<<Str(<<"A">>), Str(<<"B">>)>>)]) >>),
      Document("Conditional Test",
               << Obj(Question("q1", "Do you have a pet?", "yesno")),
                  Obj(Question("q2", "What kind?", "text")
                        @@ [condition |-> Condition("q1", Str(Yes))]) >>),
      \* a property that is undefined, choices on a text question
      Document("Optional",
               << Obj(Question("q1", "Name?", "text") @@ [condition |-> Undefined]),
                  Obj(Question("q2", "Why?", "text") @@ [choices |-> Arr(<<Num(1)>>)]) >>),
      \* strings that are present but empty
      Obj([title |-> Str(<<>>), questions |-> Arr(<<Obj(Question("q1", "Name?", "text"))>>)]),
      Document("T", << Obj([id |-> Str(<<>>), text |-> Str(<<"Name?">>),
                            type |-> Str(<<"text">>)]) >>),
      \* a title that is no string, a question that is null
      Obj([title |-> Num(7), questions |-> Arr(<<Obj(Question("q1", "Name?", "text"))>>)]),
      Document("T", << Null >>),
      \* no type; no questionId; an expected answer that is no string
      Document("T", << Obj([id |-> Str(<<"q1">>), text |-> Str(<<"Name?">>)]) >>),
      Document("T", << Obj(Question("q1", "Name?", "text")
                              @@ [condition |-> Obj([expectedAnswer |-> Str(Yes)])]) >>),
      Document("T", << Obj(Question("q1", "Name?", "text")
                              @@ [condition |-> Condition("q0", Num(1))]) >>),
      Document("T", << Obj(Question("q1", "Name?", "text")
                              @@ [condition |-> Condition("q0", Arr(<<Str(Yes), Num(1)>>))]) >>),
      \* the second question lacks text and has an unknown type, the third lacks its id
      Document("T", << Obj(Question("q1", "Name?", "text")),
                       Obj([id |-> Str(<<"q2">>), type |-> Str(<<"number">>)]),
                       Obj([text |-> Str(<<"Why?">>), type |-> Str(<<"text">>)]) >>),
      \* one question that lacks id, text and type
      Document("T", << Obj([choices |-> Arr(<<>>)]) >>),
      \* choices that are no strings and a condition that is no object
      Document("T", << Obj(Question("q1", "Pet?", "multiple-choice")
                              @@ [choices |-> Arr(<<Num(1)>>), condition |-> Str(Yes)]) >>),
      \* an unknown type and no choices
      Document("T", << Obj(Question("q1", "Pet?", "choice") @@ [condition |-> Null]) >>) }

\* no process runs
NoProcess ==
    /\ file = [state |-> "absent", value |-> Undefined]
    /\ pc = "none"
    /\ sessionCount = 0
    /\ config = Undefined
    /\ responses = <<>>
    /\ qi = 0
    /\ pending = Undefined
    /\ closed = FALSE
    /\ exitCode = -1
    /\ result = Undefined
    /\ calls = <<>>
    /\ evals = <<>>
    /\ inputs = <<>>
    /\ caller = "test"
    /\ sessionId = Undefined

\* the document of the SessionResult tests: a yes/no question and a question
\* conditioned on it
PetDocument ==
    Document("Conditional Test",
             << Obj(Question("q1", "Do you have a pet?", "yesno")),
                Obj(Question("q2", "What kind?", "text")
                      @@ [condition |-> Condition("q1", Str(Yes))]) >>)

\* the lines of a session over that document: at most one of them rejected
SessionLines ==
    {<<>>} \cup {<<a>> : a \in RawInputs}
           \cup {<<a, b>> : a, b \in RawInputs}
           \cup {<<a, b, c>> : a, b, c \in RawInputs}

process == <<file, pc, sessionCount, config, responses, qi, pending, closed,
             exitCode, result, calls, evals, inputs, caller, sessionId>>

UnitInit ==
    /\ NoProcess
    /\ \/ \E i \in UnitInputs, q \in UnconditionalQuestions :
              args = [fn |-> "validate", input |-> i, question |-> q]
       \/ \E q \in UnconditionalQuestions \cup ConditionalQuestions,
              a \in AnswerSets(MaxAnswers) :
              args = [fn |-> "shouldDisplay", question |-> q, answers |-> a]
       \/ \E d \in ValidDocuments \cup InvalidDocuments \cup UnitDocuments :
              args = [fn |-> "load", doc |-> d, file |-> JsonFile(d), filePath |-> ConfigPath]
       \/ \E f \in UnparsedFiles :
              args = [fn |-> "load", doc |-> Undefined, file |-> f, filePath |-> ConfigPath]
       \/ \E a \in AnswerSets(MaxAnswers) :
              args = [fn |-> "json", id |-> <<"test-id">>, responses |-> a,
                      config |-> PetDocument, produced |-> FALSE]
       \/ \E lines \in SessionLines :
              args = [fn |-> "json", id |-> <<"test-id">>,
                      responses |-> Replay(PetDocument, lines).responses,
                      config |-> PetDocument, produced |-> TRUE]
    /\ ret = NoReturn

\* validator.validate(input, question)
CallValidate ==
    /\ args.fn = "validate"
    /\ ~ret.done
    /\ ret' = Return(Validate(args.input, args.question))
    /\ UNCHANGED <<args, process>>

\* evaluator.shouldDisplay(question, responses)
CallShouldDisplay ==
    /\ args.fn = "shouldDisplay"
    /\ ~ret.done
    /\ ret' = Return(ShouldDisplay(args.question, args.answers))
    /\ UNCHANGED <<args, process>>

\* loader.load(filePath), the file at filePath being args.file
CallLoad ==
    /\ args.fn = "load"
    /\ ~ret.done
    /\ ret' = Return(Load(args.file, args.filePath))
    /\ UNCHANGED <<args, process>>

\* new SessionResult(id, responses, config).json()
CallJson ==
    /\ args.fn = "json"
    /\ ~ret.done
    /\ ret' = Return(Json(SessionResult(args.id, args.responses, args.config)))
    /\ UNCHANGED <<args, process>>

UnitNext ==
    \/ CallValidate
    \/ CallShouldDisplay
    \/ CallLoad
    \/ CallJson

UnitSpec == UnitInit /\ [][UnitNext]_vars

(***************************************************************************)
(* runSession called by a test, as engine.test.ts does: with a session id  *)
(* or without one, the input handler answering from the test's inputs.     *)
(***************************************************************************)
TestSessionId == <<"test-session-1">>

EngineInit ==
    /\ file \in Files \cup {UnmatchableConfig}
    /\ pc = "loading"
    /\ sessionCount = 1
    /\ config = Undefined
    /\ responses = <<>>
    /\ qi = 0
    /\ pending = Undefined
    /\ closed = FALSE
    /\ exitCode = -1
    /\ result = Undefined
    /\ calls = <<>>
    /\ evals = <<>>
    /\ inputs = <<>>
    /\ args = NoCall
    /\ ret = NoReturn
    /\ caller = "test"
    /\ sessionId \in {Undefined, Str(TestSessionId)}

\* the lines the mock input handler of the test resolves its prompts with
TestInputs ==
    RawInputs \cup { <<"y">>, <<"Y">>, <<"y", "e", "s">>, <<"n", "o">>,
                     <<" ", "N", "O", " ">> }

\* the mock's prompt resolves with the next line of the test
MockPromptResolves ==
    /\ pc = "question"
    /\ pending = Undefined
    /\ \E raw \in TestInputs :
        /\ Accepts(raw, Questions(config)[qi]) \/ Refused(inputs) < MaxRejects
        /\ pending' = Str(raw)
    /\ UNCHANGED <<caller, sessionId, args, ret, file, pc, sessionCount, config, responses, qi, closed,
                   exitCode, result, calls, evals, inputs>>

EngineNext == LoadReturns \/ MockPromptResolves \/ OnAnswer

EngineSpec == EngineInit /\ [][EngineNext]_vars

(***************************************************************************)
(* Notions the properties are stated in.                                   *)
(***************************************************************************)
\* the question at position j was prompted in this session
Prompted(j) == \E i \in 1..Len(calls) : calls[i].op = "prompt" /\ calls[i].q = j

\* the data model's invariant: ids are unique within the document
UniqueIds(cfg) ==
    \A i, j \in 1..Len(Questions(cfg)) :
        QuestionId(Questions(cfg)[i]) = QuestionId(Questions(cfg)[j]) => i = j

\* a line for the prompted question has arrived and validate rejects it
RejectedInputArrived ==
    /\ pc = "question"
    /\ pending # Undefined
    /\ ~Validate(pending.v, Questions(config)[qi]).isValid

\* the lines received for the question at position j, in order
InputsFor(j) ==
    LET F[i \in 0..Len(inputs)] ==
            IF i = 0 THEN <<>>
            ELSE IF inputs[i].q = j THEN Append(F[i - 1], inputs[i].raw)
            ELSE F[i - 1]
    IN  F[Len(inputs)]

\* the file is one the configuration provider rejects as not found, as not
\* well-formed or as violating the schema
IsConfigFailure(f) ==
    \/ f.state = "absent"
    \/ f.state = "readable" /\ ~JsonParse(f.content).ok
    \/ f.state = "readable" /\ ValidateConfig(JsonParse(f.content).value) # NoThrow

\* the line holds nothing but blanks
Blank(s) == \A i \in 1..Len(s) : s[i] \in {" ", "\t"}

\* validate has been called on its own and has returned
Validated == args.fn = "validate" /\ ret.done

\* the kind of the question validate was called with
KindOf(question) == Get(question, "type").v

\* shouldDisplay has been called on its own, with a question that has a
\* condition, and has returned
EvaluatedCondition ==
    /\ args.fn = "shouldDisplay"
    /\ ret.done
    /\ "condition" \in DOMAIN args.question.v

\* the id the condition of the question refers to
ReferencedId(question) == Get(Get(question, "condition"), "questionId").v

\* load has been called on its own and has returned
Loaded == args.fn = "load" /\ ret.done

\* a string that is there and is not empty
Present(x) == x.t = "string" /\ x.v # <<>>

\* a non-empty list of strings
StringList(x) ==
    /\ x.t = "array"
    /\ x.v # <<>>
    /\ \A i \in 1..Len(x.v) : x.v[i].t = "string"

\* the top level of the document is as the data model has it: a title and a
\* non-empty sequence of questions
TopLevelOk(doc) ==
    /\ doc.t = "object"
    /\ Present(Get(doc, "title"))
    /\ Get(doc, "questions").t = "array"
    /\ Get(doc, "questions").v # <<>>

\* the first defect of a question, in the order id, text, type, choices,
\* condition; "none" when it is a Question Definition of the data model
Defect(q) ==
    LET c == Get(q, "condition")
        e == Get(c, "expectedAnswer")
        multipleChoice == Get(q, "type").v = <<"multiple-choice">>
    IN  IF q.t # "object" THEN "object"
        ELSE IF ~Present(Get(q, "id")) THEN "id"
        ELSE IF ~Present(Get(q, "text")) THEN "text"
        ELSE IF ~Present(Get(q, "type")) THEN "type"
        ELSE IF Get(q, "type").v \notin {<<"text">>, <<"yesno">>, <<"multiple-choice">>}
        THEN "kind"
        ELSE IF multipleChoice /\ (Get(q, "choices").t # "array" \/ Get(q, "choices").v = <<>>)
        THEN "choices"
        ELSE IF multipleChoice /\ ~StringList(Get(q, "choices")) THEN "strings"
        ELSE IF c = Undefined THEN "none"
        ELSE IF c.t # "object" THEN "condition"
        ELSE IF ~Present(Get(c, "questionId")) THEN "questionId"
        ELSE IF e = Undefined THEN "expectedAnswer"
        ELSE IF e.t # "string" /\ ~StringList(e) THEN "expected"
        ELSE "none"

\* what the schema error says about a defect, after the index of the question
DefectMessage ==
    [object |-> " must be an object",
     id |-> " must have an \"id\" field of type string",
     text |-> " must have a \"text\" field of type string",
     type |-> " must have a \"type\" field of type string",
     kind |-> " has invalid type \"",
     choices |-> " with type \"multiple-choice\" must have a non-empty \"choices\" array",
     strings |-> " has invalid choices. All choices must be strings",
     condition |-> " has invalid condition. Must be an object",
     questionId |-> " condition must have a \"questionId\" field of type string",
     expectedAnswer |-> " condition must have an \"expectedAnswer\" field",
     expected |-> " condition \"expectedAnswer\" must be a string or non-empty array of strings"]

\* the positions of the questions of the document that have a defect
Defective(doc) ==
    {i \in 1..Len(Get(doc, "questions").v) : Defect(Get(doc, "questions").v[i]) # "none"}

\* the document is a Questionnaire Document of the data model
WellFormed(doc) == TopLevelOk(doc) /\ Defective(doc) = {}

\* the kinds of error load fails with, told by their messages
NotFoundError(message) == Head(message) = "Configuration file not found"

ParseError(message) == Head(message) = "Failed to parse JSON"

SchemaError(message) == Head(message) \in {"Configuration must", "Question at index "}

C2_RejectedInputRetries ==
    [][RejectedInputArrived =>
          LET question == Questions(config)[qi]
              reason == Validate(pending.v, question).errorMessage
          IN  /\ pc' = "question"
              /\ qi' = qi
              /\ responses' = responses
              /\ result' = Undefined
              /\ exitCode' = exitCode
              /\ calls' = calls \o << Call("displayError", reason, qi),
                                      Call("prompt", PromptMessage(question), qi) >>]_vars

\* the retry session: the first question rejected the empty line once and is
\* prompted again
C2_Witness ==
    /\ pc = "question"
    /\ qi = 1
    /\ Len(calls) = 4
    /\ calls[3] = Call("displayError", EmptyInputMessage, 1)
    /\ calls[4].op = "prompt" /\ calls[4].q = 1
    /\ responses = <<>>

(***************************************************************************)
(* C3: a rejected input leaves the Answer Set as it was: the answers       *)
(* recorded for earlier questions stay, with the same values, through any  *)
(* number of rejected inputs for a later question.                         *)
(***************************************************************************)
C3_RejectionKeepsAnswers ==
    /\ [][RejectedInputArrived => responses' = responses]_vars
    /\ [](pc = "question" =>
            /\ responses = evals[Len(evals)].answers
            /\ \A i \in 1..Len(inputs) :
                  inputs[i].q = qi => ~Validate(inputs[i].raw, Questions(config)[qi]).isValid)

\* two inputs were rejected for a later question while an earlier answer is held
C3_Witness ==
    /\ pc = "question"
    /\ qi > 1
    /\ Len(InputsFor(qi)) = 2
    /\ Len(responses) >= 1
    /\ pending = Undefined

C8_LoadFailurePropagates ==
    ~Load(file, ConfigPath).ok =>
        /\ result = Undefined
        /\ config = Undefined
        /\ evals = <<>>
        /\ inputs = <<>>
        /\ \A i \in 1..Len(calls) :
              /\ calls[i].op # "console.log"
              /\ calls[i].op = "prompt" => calls[i].msg = RetryPrompt
              /\ calls[i].op = "display" => Head(calls[i].msg) # "\n=== "
        /\ (pc = "retry" \/ exitCode = 1) =>
              calls[1] = Call("console.error",
                              <<"\nError: ">> \o Load(file, ConfigPath).message \o <<"\n">>, 0)

\* the file is absent and the not-found error has ended the process
C8_Witness ==
    /\ file.state = "absent"
    /\ exitCode = 1
    /\ Len(calls) = 2

(***************************************************************************)
(* C9: every configuration error (not found, parse error, any schema       *)
(* violation, per-question ones included) makes start() display the        *)
(* message, close the channel and exit with status 1, without the retry    *)
(* prompt and without another session.                                     *)
(***************************************************************************)
C9_ConfigErrorsAreFatal ==
    IsConfigFailure(file) =>
        /\ pc # "retry"
        /\ sessionCount = 1
        /\ \A i \in 1..Len(calls) : calls[i].msg # RetryPrompt
        /\ (\E i \in 1..Len(calls) : calls[i].op = "console.error")
              => (pc = "exited" /\ exitCode = 1 /\ closed)

(***************************************************************************)
(* C10: when a session fails with an error that is no configuration error, *)
(* start() displays it and asks once whether to try again; on a reply that *)
(* is yes or y once trimmed and lower-cased it starts another session, on  *)
(* any other reply it says farewell, closes the channel and exits with     *)
(* status 0.                                                               *)
(***************************************************************************)
C10_OtherErrorsOfferRetry ==
    [][ /\ ( /\ pc = "loading"
             /\ ~Load(file, ConfigPath).ok
             /\ ~IsConfigFailure(file)
             /\ exitCode' # 0 )
           => /\ pc' = "retry"
              /\ ~closed'
              /\ exitCode' = exitCode
              /\ Len(calls') = 2
              /\ calls'[1].op = "console.error"
              /\ calls'[2] = Call("prompt", RetryPrompt, 0)
        /\ (pc = "retry" /\ pending # Undefined)
           => IF ToLowerCase(Trim(pending.v)) \in {Yes, <<"y">>}
              THEN /\ pc' = "loading"
                   /\ sessionCount' = sessionCount + 1
                   /\ ~closed'
                   /\ exitCode' = exitCode
              ELSE /\ pc' = "exited"
                   /\ exitCode' = 0
                   /\ closed'
                   /\ sessionCount' = sessionCount
                   /\ calls' = calls \o << Call("display", Farewell, 0),
                                           Call("close", <<>>, 0) >> ]_vars

\* the file cannot be read: the operator retried once, then declined
C10_Witness ==
    /\ file.state = "unreadable"
    /\ sessionCount = 2
    /\ pc = "exited"
    /\ exitCode = 0
    /\ Len(calls) = 4
    /\ calls[2] = Call("prompt", RetryPrompt, 0)
    /\ calls[3] = Call("display", Farewell, 0)

(***************************************************************************)
(* C7: when the operator eventually types an accepted line at every        *)
(* prompted question, every session over a loaded document returns a       *)
(* Session Result; and there is no retry cap: however many lines have been *)
(* rejected, a rejected line leaves the engine prompting the same question.*)
(***************************************************************************)
C7_SessionCompletes ==
    /\ (pc = "question") ~> (pc = "again" /\ result # Undefined)
    /\ [][RejectedInputArrived => (pc' = "question" /\ qi' = qi /\ result' = Undefined)]_vars

\* one more line is rejected for the first question than the record of the
\* session keeps
C7_Witness ==
    /\ Rejects(calls) = MaxRejects
    /\ Len(InputsFor(qi)) = MaxRejects
    /\ qi = 1
    /\ RejectedInputArrived

\* without the operator's obligation the session need not complete
C7_CompletesUnconditionally == (pc = "question") ~> (pc = "again" /\ result # Undefined)

(***************************************************************************)
(* C11: when a session has completed, start() has rendered its summary and *)
(* then asked whether to start a new session; on a reply that is yes or y  *)
(* once trimmed and lower-cased the engine is invoked again (the next      *)
(* iteration of the session loop), on any other reply the loop ends with   *)
(* the farewell, the channel closed and exit status 0; nothing else ends   *)
(* the loop after a completed session.                                     *)
(***************************************************************************)
C11_SessionsRepeatUntilDeclined ==
    /\ [](pc = "again" =>
            /\ result # Undefined
            /\ Len(calls) >= 2
            /\ calls[Len(calls) - 1] = Call("console.log", SessionSummary(result), 0)
            /\ calls[Len(calls)] = Call("prompt", NewSessionPrompt, 0)
            /\ \A i \in 1..(Len(calls) - 2) : calls[i].op # "console.log")
    /\ [][(pc = "again" /\ pending # Undefined)
            => IF ToLowerCase(Trim(pending.v)) \in {Yes, <<"y">>}
               THEN /\ pc' = "loading"
                    /\ sessionCount' = sessionCount + 1
                    /\ result' = Undefined
                    /\ ~closed'
                    /\ exitCode' = exitCode
               ELSE /\ pc' = "exited"
                    /\ exitCode' = 0
                    /\ closed'
                    /\ sessionCount' = sessionCount
                    /\ calls' = calls \o << Call("display", Farewell, 0),
                                            Call("close", <<>>, 0) >>]_vars

\* the operator accepted a second session, completed it and then declined
C11_Witness ==
    /\ sessionCount = 2
    /\ result # Undefined
    /\ result.id = SessionId(2)
    /\ pc = "exited"
    /\ exitCode = 0
    /\ calls[Len(calls) - 1] = Call("display", Farewell, 0)

(***************************************************************************)
(* C12: each runSession call starts from an empty Answer Set: the first    *)
(* question of a session is evaluated against no answers, and every entry  *)
(* of the Answer Set, and so of the Session Result, is the trimmed form of  *)
(* a line accepted in this session for a question with that id; visibility *)
(* is decided from these answers alone.                                    *)
(***************************************************************************)
C12_FreshAnswerSet ==
    evals # <<>> =>
        /\ evals[1].q = 1
        /\ evals[1].answers = <<>>
        /\ \A i \in 1..Len(responses) :
              \E k \in 1..Len(inputs) :
                  /\ inputs[k].accepted
                  /\ QuestionId(Questions(config)[inputs[k].q]) = responses[i].key
                  /\ responses[i].value = Trim(inputs[k].raw)
        /\ \A k \in 1..Len(evals) :
              \A i \in 1..Len(evals[k].answers) :
                  \E l \in 1..Len(inputs) :
                      /\ inputs[l].accepted
                      /\ inputs[l].q < evals[k].q
                      /\ QuestionId(Questions(config)[inputs[l].q]) = evals[k].answers[i].key
        /\ result # Undefined => result.responses = responses

\* the second session on the same engine asks its first question with an
\* empty Answer Set, the first session having recorded answers
C12_Witness ==
    /\ sessionCount = 2
    /\ pc = "question"
    /\ qi = 1
    /\ evals # <<>>
    /\ responses = <<>>
    /\ inputs = <<>>

(***************************************************************************)
(* C13: an interrupt signal received while a prompt is awaited makes the   *)
(* input handler display its farewell, close the readline interface and    *)
(* end the process with status 0, whichever prompt is awaited; a session   *)
(* interrupted at the prompt of a question has no Session Result and no    *)
(* summary, and nothing happens after the exit.                            *)
(***************************************************************************)
C13_InterruptEndsProcess ==
    /\ [][(pc \in {"question", "again", "retry"} /\ pending = Undefined /\ pc' = "exited")
            => /\ calls' = calls \o << Call("display", <<"\n\nGoodbye!">>, 0),
                                       Call("close", <<>>, 0) >>
               /\ closed'
               /\ exitCode' = 0
               /\ result' = result
               /\ responses' = responses
               /\ pc = "question" =>
                     /\ result' = Undefined
                     /\ \A i \in 1..Len(calls') : calls'[i].op # "console.log"]_vars
    /\ [][pc # "exited"]_vars

\* interrupted at the prompt of the second question, one answer recorded
C13_Witness ==
    /\ pc = "exited"
    /\ exitCode = 0
    /\ closed
    /\ qi = 2
    /\ Len(responses) = 1
    /\ result = Undefined
    /\ calls[Len(calls) - 1] = Call("display", <<"\n\nGoodbye!">>, 0)
    /\ calls[Len(calls)] = Call("close", <<>>, 0)

(***************************************************************************)
(* C14: in a session whose document loaded, the title is displayed exactly *)
(* once: it is the first call of the session, made when load returns and   *)
(* before any question is evaluated or prompted; a session that has not    *)
(* loaded its document has displayed and evaluated nothing.                *)
(***************************************************************************)
C14_TitleDisplayedOnce ==
    /\ [](pc = "loading" => calls = <<>> /\ evals = <<>>)
    /\ [](evals # <<>> =>
            LET title == Call("display", <<"\n=== ">> \o Get(config, "title").v \o <<" ===\n">>, 0)
            IN  /\ calls[1] = title
                /\ \A i \in 2..Len(calls) :
                      /\ calls[i] # title
                      /\ calls[i].op = "display" => calls[i].msg \in {Farewell, Goodbye})
    /\ [][(evals = <<>> /\ evals' # <<>>) => (calls = <<>> /\ calls'[1].op = "display")]_vars

\* the second session over the sample document, completed: the title once,
\* then three prompts, the summary and the new-session prompt
C14_Witness ==
    /\ file = SampleConfig
    /\ sessionCount = 2
    /\ pc = "again"
    /\ Len(calls) = 6
    /\ calls[1] = Call("display", <<"\n=== ", "Test Questionnaire", " ===\n">>, 0)
    /\ calls[2].op = "prompt"

(***************************************************************************)
(* C15: for every question kind, the unknown kind and a multiple-choice    *)
(* question without choices included, validate returns Invalid with the    *)
(* message 'Input cannot be empty. Please provide an answer.' when the raw *)
(* input is empty or holds only blanks: no rule of the kind is consulted   *)
(* before.                                                                 *)
(***************************************************************************)
C15_EmptyInputRejectedFirst ==
    (Validated /\ Blank(args.input)) =>
        ret.value = [isValid |-> FALSE,
                     errorMessage |-> <<"Input cannot be empty. Please provide an answer.">>]

\* blanks only, for a question of unknown kind
C15_Witness ==
    /\ Validated
    /\ args.input = <<" ", "\t">>
    /\ args.question = UnknownKindQuestion
    /\ ~ret.value.isValid

(***************************************************************************)
(* C16: for a yes/no question validate is Valid exactly when the input,    *)
(* trimmed and lower-cased, is yes, no, y or n: every letter case of those *)
(* four, with or without blanks around, is accepted; every other input     *)
(* that is not blank is Invalid with the yes/no message.                   *)
(***************************************************************************)
C16_YesNoCaseInsensitive ==
    (Validated /\ KindOf(args.question) = <<"yesno">>) =>
        LET accepted == Cases(Yes) \cup Cases(No) \cup Cases(<<"y">>) \cup Cases(<<"n">>)
        IN  /\ ret.value.isValid <=> args.input \in Padded(accepted)
            /\ ret.value.isValid
                  <=> ToLowerCase(Trim(args.input)) \in {Yes, No, <<"y">>, <<"n">>}
            /\ (~ret.value.isValid /\ ~Blank(args.input)) =>
                  ret.value.errorMessage =
                      <<"Invalid input. Expected: yes, no, y, or n (case-insensitive). Please try again.">>

\* "yEs" between blanks is accepted
C16_Witness ==
    /\ Validated
    /\ args.question = YesNoQuestion
    /\ args.input = <<" ", "y", "E", "s", "\t">>
    /\ ret.value.isValid

C18_AcceptsChoiceNumber ==
    ( /\ Validated
      /\ KindOf(args.question) = <<"multiple-choice">>
      /\ ~Falsy(Get(args.question, "choices")) ) =>
        LET choices == Strings(Get(args.question, "choices").v)
        IN  ( \/ \E i \in 1..Len(choices) : choices[i] = Trim(args.input)
              \/ \E i \in 1..Len(choices) : NumToStr(i) = Trim(args.input) )
            => ret.value.isValid

(***************************************************************************)
(* C19: for a text question validate is Valid for every input that is not  *)
(* blank, whatever it holds, blanks inside included.                       *)
(***************************************************************************)
C19_TextAcceptsNonEmpty ==
    (Validated /\ KindOf(args.question) = <<"text">> /\ ~Blank(args.input)) =>
        ret.value.isValid

\* a text answer with a blank inside and blanks around
C19_Witness ==
    /\ Validated
    /\ args.question = TextQuestion
    /\ args.input = <<" ", "n", " ", "o", " ">>
    /\ ret.value.isValid

(***************************************************************************)
(* C20: shouldDisplay returns true for every question that has no          *)
(* condition, whatever the Answer Set holds.                               *)
(***************************************************************************)
C20_UnconditionalShown ==
    ( /\ args.fn = "shouldDisplay"
      /\ ret.done
      /\ "condition" \notin DOMAIN args.question.v ) => ret.value = TRUE

\* a question without condition, evaluated against a full Answer Set that
\* holds an answer under its own id
C20_Witness ==
    /\ args.fn = "shouldDisplay"
    /\ ret.done
    /\ args.question = YesNoQuestion
    /\ Len(args.answers) = MaxAnswers
    /\ MapHas(args.answers, <<"q2">>)
    /\ ret.value = TRUE

(***************************************************************************)
(* C21: for a question with a condition shouldDisplay returns false, and   *)
(* returns (it throws nothing), whenever the Answer Set has no entry under *)
(* the referenced id, whatever other entries it holds.                     *)
(***************************************************************************)
C21_MissingAnswerHides ==
    ( /\ EvaluatedCondition
      /\ \A i \in 1..Len(args.answers) : args.answers[i].key # ReferencedId(args.question) )
    => ret.value = FALSE

\* the condition refers to q2; the Answer Set holds matching answers under
\* q1 and q3 only
C21_Witness ==
    /\ EvaluatedCondition
    /\ ReferencedId(args.question) = <<"q2">>
    /\ args.answers = << [key |-> <<"q1">>, value |-> Yes], [key |-> <<"q3">>, value |-> Yes] >>
    /\ ret.value = FALSE

(***************************************************************************)
(* C22: for a question with a condition whose referenced answer is present *)
(* shouldDisplay returns true exactly when the stored answer, trimmed and  *)
(* lower-cased, equals the trimmed, lower-cased form of at least one       *)
(* expected answer (a single string counting as a list of one).            *)
(***************************************************************************)
C22_NormalizedMembership ==
    ( /\ EvaluatedCondition
      /\ \E i \in 1..Len(args.answers) : args.answers[i].key = ReferencedId(args.question) )
    => LET stored == args.answers[CHOOSE i \in 1..Len(args.answers) :
                                     args.answers[i].key = ReferencedId(args.question)].value
           expectedAnswer == Get(Get(args.question, "condition"), "expectedAnswer")
           expected == IF expectedAnswer.t = "string"
                       THEN {expectedAnswer.v}
                       ELSE {expectedAnswer.v[i].v : i \in 1..Len(expectedAnswer.v)}
       IN  ret.value = (\E e \in expected : ToLowerCase(Trim(e)) = ToLowerCase(Trim(stored)))

\* expected [yes, y], stored YES
C22_Witness ==
    /\ EvaluatedCondition
    /\ Get(Get(args.question, "condition"), "expectedAnswer") = Arr(<<Str(Yes), Str(<<"y">>)>>)
    /\ args.answers = << [key |-> <<"q2">>, value |-> <<"Y", "E", "S">>] >>
    /\ ret.value = TRUE

(***************************************************************************)
(* C25: load fails with the not-found error, naming the path, when there   *)
(* is no file; with the parse error when the bytes are not JSON; with a    *)
(* schema error when the bytes are JSON and the value is no Questionnaire  *)
(* Document.  Each of these failures has one kind only: a missing file is  *)
(* no parse or schema error and malformed JSON is no schema error.         *)
(***************************************************************************)
C25_LoadErrorKinds ==
    Loaded =>
        LET message == ret.value.message
            kinds == {k \in {"notFound", "parse", "schema"} :
                        \/ k = "notFound" /\ NotFoundError(message)
                        \/ k = "parse" /\ ParseError(message)
                        \/ k = "schema" /\ SchemaError(message)}
        IN  /\ args.file.state = "absent" =>
                  /\ ~ret.value.ok
                  /\ message = <<"Configuration file not found", ": ">> \o args.filePath
                  /\ kinds = {"notFound"}
            /\ (args.file.state = "readable" /\ args.doc = Undefined) =>
                  (~ret.value.ok /\ kinds = {"parse"})
            /\ (args.doc # Undefined /\ ~WellFormed(args.doc)) =>
                  (~ret.value.ok /\ kinds = {"schema"})
            /\ \A i \in 2..Len(message) :
                  message[i] \notin {"Configuration file not found", "Failed to parse JSON",
                                     "Configuration must", "Question at index "}

\* no file at the path
C25_Witness ==
    /\ Loaded
    /\ args.file.state = "absent"
    /\ ~ret.value.ok
    /\ ret.value.message = <<"Configuration file not found", ": ", "questionnaire.json">>

(***************************************************************************)
(* C26: for a document with a title and a non-empty list of questions,     *)
(* load fails when a question has a defect (no id, text or type, an        *)
(* unknown type, multiple-choice without a non-empty list of string        *)
(* choices, a condition without questionId or without a valid              *)
(* expectedAnswer); the error names the 0-based index of the first         *)
(* question with a defect and the first defect of that question in the     *)
(* order id, text, type, choices, condition, and nothing else.             *)
(***************************************************************************)
C26_FirstViolationReported ==
    (Loaded /\ args.doc # Undefined /\ TopLevelOk(args.doc) /\ Defective(args.doc) # {}) =>
        LET questions == Get(args.doc, "questions").v
            first == CHOOSE i \in Defective(args.doc) : \A j \in Defective(args.doc) : i <= j
            message == ret.value.message
        IN  /\ ~ret.value.ok
            /\ message[1] = "Question at index "
            /\ message[2] = <<"0", "1", "2", "3">>[first]
            /\ message[3] = DefectMessage[Defect(questions[first])]
            /\ \A i \in 4..Len(message) : message[i] # "Question at index "

\* the second question lacks its text and has an unknown type, the third
\* lacks its id: the error is about the text of question 1
C26_Witness ==
    /\ Loaded
    /\ args.doc # Undefined
    /\ TopLevelOk(args.doc)
    /\ Defective(args.doc) = {2, 3}
    /\ ret.value.message = <<"Question at index ", "1", " must have a \"text\" field of type string">>

(***************************************************************************)
(* C27: loading the file written from a Questionnaire Document returns a   *)
(* document equal to it: the same title, as many questions in the same     *)
(* order, and every field of every question, its condition included, with  *)
(* the value it was given.                                                 *)
(***************************************************************************)
C27_LoadReturnsDocument ==
    (Loaded /\ args.doc # Undefined /\ WellFormed(args.doc)) =>
        LET loaded == ret.value.config
            supplied == Get(args.doc, "questions").v
        IN  /\ ret.value.ok
            /\ Get(loaded, "title") = Get(args.doc, "title")
            /\ Get(loaded, "questions").t = "array"
            /\ Len(Get(loaded, "questions").v) = Len(supplied)
            /\ \A i \in 1..Len(supplied) :
                  \A k \in {"id", "text", "type", "choices", "condition"} :
                      Get(Get(loaded, "questions").v[i], k) = Get(supplied[i], k)

\* the sample document: three questions, choices and a condition
C27_Witness ==
    /\ Loaded
    /\ args.doc = SampleDocument
    /\ ret.value.ok
    /\ ret.value.config = SampleDocument

\* the position of the first question of the document that has the id
FirstWithId(cfg, id) ==
    CHOOSE k \in 1..Len(Questions(cfg)) :
        /\ QuestionId(Questions(cfg)[k]) = id
        /\ \A l \in 1..(k - 1) : QuestionId(Questions(cfg)[l]) # id

(***************************************************************************)
(* C23: json() of the result of a session has one pair for each entry of   *)
(* the Answer Set, in the order of the entries: the answer of the entry    *)
(* and the text of the question with the entry's id.  The entries of a     *)
(* result of runSession, and so the pairs, are in document order; an empty *)
(* Answer Set gives the empty sequence.  The summary start() displays is   *)
(* made of these pairs.                                                    *)
(***************************************************************************)
C23_PairsFollowAnswerSet ==
    (pc = "again" /\ result # Undefined) =>
        LET pairs == Json(result)
            entries == result.responses
        IN  /\ Len(pairs) = Len(entries)
            /\ \A i \in 1..Len(entries) :
                  /\ pairs[i].answer = entries[i].value
                  /\ pairs[i].question =
                        Get(Questions(result.config)[FirstWithId(result.config, entries[i].key)],
                            "text").v
            /\ \A i, j \in 1..Len(entries) :
                  i < j => FirstWithId(result.config, entries[i].key)
                              < FirstWithId(result.config, entries[j].key)
            /\ entries = <<>> => pairs = <<>>
            /\ \E i \in 1..Len(calls) :
                  /\ calls[i].op = "console.log"
                  /\ calls[i].msg = SessionSummary(result)
                  /\ \A k \in 1..Len(pairs) :
                        /\ Includes(calls[i].msg, pairs[k].question)
                        /\ Includes(calls[i].msg, <<"\n   Answer: ">> \o pairs[k].answer)

\* the three questions of the sample document answered
C23_Witness ==
    /\ pc = "again"
    /\ result # Undefined
    /\ file = SampleConfig
    /\ Len(result.responses) = 3
    /\ Json(result) = << [question |-> <<"What is your name?">>, answer |-> result.responses[1].value],
                         [question |-> <<"Do you have a pet?">>, answer |-> <<"Y", "e", "s">>],
                         [question |-> <<"What kind of pet?">>, answer |-> Dog] >>

\* a session of a document whose only question is hidden: no pair
C23_EmptyAnswerSet ==
    /\ pc = "again"
    /\ result # Undefined
    /\ result.responses = <<>>
    /\ Json(result) = <<>>

(***************************************************************************)
(* C24: the Session Result runSession returns has the session id the       *)
(* caller gave, unchanged, and a generated identifier when the caller      *)
(* gave none.                                                              *)
(***************************************************************************)
C24_SessionIdCarried ==
    pc = "returned" =>
        /\ sessionId # Undefined => result.id = sessionId.v
        /\ sessionId = Undefined =>
              /\ result.id = SessionId(sessionCount)
              /\ result.id # <<>>
              /\ result.id # TestSessionId

\* the test's call: runSession('test-session-1') with three answers
C24_Witness ==
    /\ pc = "returned"
    /\ sessionId = Str(TestSessionId)
    /\ result.id = <<"test-session-1">>
    /\ Len(result.responses) = 3

\* runSession() without an argument
C24_Generated ==
    /\ pc = "returned"
    /\ sessionId = Undefined
    /\ result.id = <<"uuid-", "1">>

\* the state of the session start() is in: 0 not started (the document is
\* being loaded), 1 running (a question awaits its answer), 2 completed (the
\* result is there); 3 when no session is under way
SessionState ==
    CASE pc = "loading" -> 0
      [] pc = "question" -> 1
      [] pc = "again" -> 2
      [] OTHER -> 3

\* the questions prompted so far in the session, in the order of the prompts
PromptedQuestions ==
    LET asked == SelectSeq(calls, LAMBDA c : c.op = "prompt" /\ c.q > 0)
    IN  [i \in 1..Len(asked) |-> asked[i].q]

\* how many of the recorded inputs for question q were rejected
RetriesOf(q) == Cardinality({i \in 1..Len(inputs) : inputs[i].q = q /\ ~inputs[i].accepted})

(***************************************************************************)
(* C28: a session goes from not started to running to completed and never  *)
(* back; while it lasts the index of the current question does not         *)
(* decrease; the questions are evaluated one time each, in document order  *)
(* (all of them once the session is completed); the prompted questions     *)
(* are in document order, a question being prompted again only after an    *)
(* input for it was rejected.                                              *)
(***************************************************************************)
C28_SessionStateMachine ==
    /\ [][sessionCount' = sessionCount =>
             /\ SessionState \in {0, 1, 2} =>
                   (SessionState' >= SessionState /\ (SessionState = 2 => SessionState' # 2 \/ UNCHANGED <<qi, evals, responses, result>>))
             /\ SessionState \in {0, 1} => qi' >= qi
             /\ SessionState = 3 => SessionState' = 3
             /\ SessionState' = 0 => SessionState = 0]_vars
    /\ [](SessionState \in {1, 2} =>
             /\ \A k \in 1..Len(evals) : evals[k].q = k
             /\ Len(evals) = IF SessionState = 2 THEN Len(Questions(config)) ELSE qi
             /\ SessionState = 1 => qi \in 1..Len(Questions(config))
             /\ \A i, j \in 1..Len(PromptedQuestions) :
                   i < j => PromptedQuestions[i] <= PromptedQuestions[j]
             /\ \A q \in 1..Len(Questions(config)) :
                   Cardinality({i \in 1..Len(PromptedQuestions) : PromptedQuestions[i] = q})
                      = IF q <= Len(evals) /\ ~evals[q].skipped THEN 1 + RetriesOf(q) ELSE 0)

\* a completed session of the sample document in which the second question
\* was asked twice and the third was skipped
C28_Witness ==
    /\ pc = "again"
    /\ file = SampleConfig
    /\ PromptedQuestions = <<1, 2, 2>>
    /\ Len(evals) = 3
    /\ evals[3].skipped

\* how many of the recorded inputs of the session were accepted
Answered == Cardinality({i \in 1..Len(inputs) : inputs[i].accepted})

(***************************************************************************)
(* C29: within a session the Answer Set only grows by appending: an entry  *)
(* recorded under an id is neither changed nor removed for the rest of the *)
(* session, the Answer Set has as many entries as questions have been      *)
(* answered, and once the session is completed it does not change.  For    *)
(* every document the loader accepts.                                      *)
(***************************************************************************)
C29_AnswerSetAppendOnly ==
    /\ [][(pc \in {"question", "again"}) =>
             ( /\ Len(responses') >= Len(responses)
               /\ \A i \in 1..Len(responses) : responses'[i] = responses[i]
               /\ pc = "again" => responses' = responses )]_vars
    /\ [](pc \in {"question", "again"} => Len(responses) = Answered)
    /\ [](pc = "again" => result.responses = responses)

\* question k of the document has a condition whose questionId is not the id
\* of an earlier question: it is its own id, that of a later question, or
\* the id of no question
RefersNotBack(cfg, k) ==
    /\ "condition" \in DOMAIN Questions(cfg)[k].v
    /\ \A l \in 1..(k - 1) : QuestionId(Questions(cfg)[l]) # ReferencedId(Questions(cfg)[k])

(***************************************************************************)
(* C30: a question whose condition refers to the question itself, to a     *)
(* later question or to an id that no question has is hidden in every      *)
(* session, whatever the answers: shouldDisplay is false for it, it is     *)
(* not prompted and gets no entry in the Answer Set (unless another        *)
(* question has the same id); the reference makes the session fail         *)
(* neither at load nor later.                                              *)
(***************************************************************************)
C30_UnresolvedReferenceHides ==
    (pc \in {"question", "again"} /\ \E k \in 1..Len(Questions(config)) : RefersNotBack(config, k)) =>
        /\ \A k \in 1..Len(evals) :
              RefersNotBack(config, k) =>
                  /\ evals[k].skipped
                  /\ \A i \in 1..Len(calls) : calls[i].q # k
                  /\ \A i \in 1..Len(inputs) : inputs[i].q # k
                  /\ UniqueIds(config) => ~MapHas(responses, QuestionId(Questions(config)[k]))
        /\ pc = "again" => Len(evals) = Len(Questions(config))
        /\ \A i \in 1..Len(calls) : calls[i].op \notin {"console.error", "displayError"} \/ calls[i].q > 0

\* the session of the document with the three kinds of reference, completed:
\* only the third question was asked
C30_Witness ==
    /\ pc = "again"
    /\ file = ReferenceConfig
    /\ Len(evals) = 4
    /\ evals[1].skipped /\ evals[2].skipped /\ ~evals[3].skipped /\ evals[4].skipped
    /\ Len(responses) = 1
    /\ responses[1].key = <<"q3">>
    /\ ToLowerCase(responses[1].value) = Yes

\* the message is one of the two defensive outcomes of validate
Defensive(message) ==
    /\ message # <<>>
    /\ Head(message) \in {"No choices defined for this question.", "Unknown question type: "}

(***************************************************************************)
(* C31: in a session over a document the loader has accepted, validate     *)
(* gives neither 'No choices defined for this question.' nor 'Unknown      *)
(* question type': no error displayed in the session is one of them, and   *)
(* no question of the document has an input for which validate would       *)
(* give one.                                                               *)
(***************************************************************************)
C31_DefensiveOutcomesUnreachable ==
    pc \in {"question", "again"} =>
        /\ \A i \in 1..Len(calls) :
              calls[i].op = "displayError" => ~Defensive(calls[i].msg)
        /\ \A k \in 1..Len(Questions(config)) :
              \A raw \in RawInputs :
                  ~Defensive(Validate(raw, Questions(config)[k]).errorMessage)

\* an input for the multiple-choice question of the sample document is
\* rejected: the error lists the choices
C31_Witness ==
    /\ pc = "question"
    /\ file = SampleConfig
    /\ qi = 3
    /\ \E i \in 1..Len(calls) :
          /\ calls[i].op = "displayError"
          /\ calls[i].q = 3
          /\ Head(calls[i].msg) = "Invalid choice. Expected one of: "

\* the lines that can be accepted for a question if any line can: validate
\* compares the trimmed line with the choices, so a choice that some line
\* matches is matched by the choice itself
Candidates(question) ==
    RawInputs
      \cup {<<"y", "e", "s">>, <<"J", "o", "h", "n">>}
      \cup (IF IsArray(Get(question, "choices"))
            THEN {Get(question, "choices").v[i].v : i \in 1..Len(Get(question, "choices").v)}
                   \cup {Trim(Get(question, "choices").v[i].v) :
                            i \in 1..Len(Get(question, "choices").v)}
            ELSE {})

(***************************************************************************)
(* C32: every question of a document the loader has accepted has a line    *)
(* that validate accepts, so that a prompted question can always be        *)
(* answered and the retry loop left.                                       *)
(***************************************************************************)
C32_EveryQuestionAnswerable ==
    pc \in {"question", "returned"} =>
        \A k \in 1..Len(Questions(config)) :
            \E raw \in Candidates(Questions(config)[k]) : Accepts(raw, Questions(config)[k])

\* the recorded inputs of the session that validate rejected, in their order
RejectedInputs == SelectSeq(inputs, LAMBDA i : ~i.accepted)

\* the displayError calls of the session, in their order
ErrorsDisplayed == SelectSeq(calls, LAMBDA c : c.op = "displayError")

(***************************************************************************)
(* C33: in a completed session there are as many displayError calls as     *)
(* inputs validate rejected, and as many prompts of questions as answered  *)
(* questions and rejected inputs together; the n-th displayError is for    *)
(* the question of the n-th rejected input and carries the reason validate *)
(* gave for that input.                                                    *)
(***************************************************************************)
C33_ErrorsMatchRejections ==
    (pc = "again" /\ result # Undefined) =>
        /\ Len(ErrorsDisplayed) = Len(RejectedInputs)
        /\ Len(PromptedQuestions) = Answered + Len(RejectedInputs)
        /\ \A n \in 1..Len(RejectedInputs) :
              /\ ErrorsDisplayed[n].q = RejectedInputs[n].q
              /\ ErrorsDisplayed[n].msg # <<>>
              /\ ErrorsDisplayed[n].msg
                    = Validate(RejectedInputs[n].raw,
                               Questions(config)[RejectedInputs[n].q]).errorMessage

\* the retry of the specification's example: an empty line, then an accepted
\* one for the first question; displayError once, with the empty-input message
C33_Witness ==
    /\ pc = "again"
    /\ result # Undefined
    /\ file = SampleConfig
    /\ Len(ErrorsDisplayed) = 1
    /\ ErrorsDisplayed[1].msg = EmptyInputMessage
    /\ inputs[1] = [q |-> 1, raw |-> <<>>, accepted |-> FALSE]
    /\ inputs[2].q = 1
    /\ inputs[2].accepted
    /\ result.responses[1].value = Trim(inputs[2].raw)

\* question k of the document is conditioned, with the expected answers yes
\* and y, on an earlier question that is a yes/no question
DependsOnYes(cfg, k) ==
    /\ "condition" \in DOMAIN Questions(cfg)[k].v
    /\ Get(Get(Questions(cfg)[k], "condition"), "expectedAnswer") = Arr(<<Str(Yes), Str(<<"y">>)>>)
    /\ \E j \in 1..(k - 1) :
          /\ QuestionId(Questions(cfg)[j]) = ReferencedId(Questions(cfg)[k])
          /\ KindOf(Questions(cfg)[j]) = <<"yesno">>

\* the lines accepted so far for question j
AcceptedFor(j) == {inputs[i].raw : i \in {n \in 1..Len(inputs) : inputs[n].q = j /\ inputs[n].accepted}}

\* question k has been prompted in the session
WasPrompted(k) == \E i \in 1..Len(PromptedQuestions) : PromptedQuestions[i] = k

(***************************************************************************)
(* C34: end to end, a question conditioned with the expected answers yes   *)
(* and y on an earlier yes/no question is prompted exactly when the        *)
(* accepted answer to that question, trimmed and lower-cased, is yes or y, *)
(* whatever its letter case and the blanks around it in the line typed;    *)
(* it is skipped when the answer is no or n.                               *)
(***************************************************************************)
C34_DependentFollowsYesNo ==
    pc \in {"question", "returned"} =>
        \A k \in 1..Len(evals) :
            DependsOnYes(config, k) =>
                LET j == FirstWithId(config, ReferencedId(Questions(config)[k]))
                IN  /\ WasPrompted(k) <=> ~evals[k].skipped
                    /\ WasPrompted(k) <=>
                          \E raw \in AcceptedFor(j) :
                              ToLowerCase(Trim(raw)) \in {<<"y", "e", "s">>, <<"y">>}
                    /\ (\E raw \in AcceptedFor(j) :
                            ToLowerCase(Trim(raw)) \in {<<"n", "o">>, <<"n">>})
                          => (evals[k].skipped /\ ~WasPrompted(k))

\* " Yes " typed for the yes/no question: the dependent question is prompted
C34_Witness ==
    /\ file = SampleConfig
    /\ pc = "question"
    /\ qi = 3
    /\ AcceptedFor(2) = {<<" ", "Y", "e", "s", " ">>}
    /\ WasPrompted(3)

\* " NO " typed: the session returns without the dependent question
C34_Skipped ==
    /\ file = SampleConfig
    /\ pc = "returned"
    /\ AcceptedFor(2) = {<<" ", "N", "O", " ">>}
    /\ ~WasPrompted(3)
    /\ Len(result.responses) = 2

\* the lines of the session in the order they were typed
Lines == [i \in 1..Len(inputs) |-> inputs[i].raw]

(***************************************************************************)
(* C35: validate and shouldDisplay are functions of their arguments and    *)
(* change nothing, so a session is a function of its document and of the   *)
(* lines typed: in every session of the process, the first or a later one, *)
(* the Answer Set, the questions prompted and the question awaiting its    *)
(* answer are what the document and the lines of that session determine;   *)
(* two sessions over the same document fed the same lines record the same  *)
(* Answer Set and prompt the same questions.  The document is the one      *)
(* loaded, unchanged by the calls.                                         *)
(***************************************************************************)
C35_SessionIsFunctionOfInputs ==
    /\ [][(pc = "question") => config' = config]_vars
    /\ [](pc \in {"question", "again"} =>
             LET replayed == Replay(config, Lines)
             IN  /\ responses = replayed.responses
                 /\ PromptedQuestions = replayed.prompts
                 /\ pc = "question" => qi = replayed.qi
                 /\ pc = "again" =>
                       ( /\ replayed.qi > Len(Questions(config))
                         /\ result.responses = replayed.responses
                         /\ result.config = config ))

\* a second session over the sample document, with a rejected line and the
\* three questions answered
C35_Witness ==
    /\ sessionCount = 2
    /\ pc = "again"
    /\ file = SampleConfig
    /\ Len(responses) = 3
    /\ Len(RejectedInputs) = 1
    /\ responses = Replay(SampleDocument, Lines).responses

\* the question with the single expected string of its condition, if it has
\* one, written as a list of that one string
ListForm(question) ==
    IF /\ question.t = "object"
       /\ Get(question, "condition").t = "object"
       /\ Get(Get(question, "condition"), "expectedAnswer").t = "string"
    THEN Obj([question.v EXCEPT !.condition =
                 Obj([@.v EXCEPT !.expectedAnswer = Arr(<<@>>)])])
    ELSE question

\* the document with every single expected string written as a list
ListFormDocument(doc) ==
    Obj([doc.v EXCEPT !.questions =
            Arr([i \in 1..Len(@.v) |-> ListForm(@.v[i])])])

\* some question of the document has a condition with a single expected string
HasSingleExpected(doc) ==
    /\ doc.t = "object"
    /\ Get(doc, "questions").t = "array"
    /\ \E i \in 1..Len(Get(doc, "questions").v) :
          ListForm(Get(doc, "questions").v[i]) # Get(doc, "questions").v[i]

(***************************************************************************)
(* C36: a condition whose expectedAnswer is one string s is the same as    *)
(* the condition with expectedAnswer [s]: shouldDisplay returns for the    *)
(* one what it returns for the other, on every Answer Set, and load        *)
(* accepts a document with the one exactly when it accepts the document    *)
(* with the other, returning the form that was written.                    *)
(***************************************************************************)
C36_SingleStringIsSingleton ==
    /\ (EvaluatedCondition /\ ListForm(args.question) # args.question) =>
          ret.value = ShouldDisplay(ListForm(args.question), args.answers)
    /\ (Loaded /\ args.doc # Undefined /\ HasSingleExpected(args.doc)) =>
          LET listed == Load(JsonFile(ListFormDocument(args.doc)), args.filePath)
          IN  /\ ret.value.ok <=> listed.ok
              /\ ret.value.ok =>
                    ListFormDocument(ret.value.config) = listed.config

\* ' Yes ' expected as a single string, YES stored: shown, as with [' Yes ']
C36_Witness ==
    /\ EvaluatedCondition
    /\ Get(Get(args.question, "condition"), "expectedAnswer") = Str(<<" ", "Y", "e", "s", " ">>)
    /\ args.answers = << [key |-> <<"q2">>, value |-> <<"Y", "E", "S">>] >>
    /\ ret.value = TRUE
    /\ ShouldDisplay(ListForm(args.question), args.answers)

\* the loader test's document with expectedAnswer 'yes' is accepted
C36_Accepted ==
    /\ Loaded
    /\ args.doc # Undefined
    /\ HasSingleExpected(args.doc)
    /\ ret.value.ok
    /\ Load(JsonFile(ListFormDocument(args.doc)), args.filePath).ok

\* json() has been called on a Session Result and has returned
JsonCalled == args.fn = "json" /\ ret.done

\* some question of the document has the id
Resolves(cfg, id) == \E k \in 1..Len(Questions(cfg)) : QuestionId(Questions(cfg)[k]) = id

(***************************************************************************)
(* C37: json() leaves out every entry of the Answer Set whose id no        *)
(* question of the document has, and nothing else: the pairs are those of  *)
(* the other entries, in the order of the entries.  The call changes       *)
(* neither the Answer Set nor the document.  Of the Answer Set of a        *)
(* result that runSession produced no entry is left out.                   *)
(***************************************************************************)
C37_UnresolvedEntriesOmitted ==
    /\ [](JsonCalled =>
             LET kept == SelectSeq(args.responses, LAMBDA e : Resolves(args.config, e.key))
             IN  /\ Len(ret.value) = Len(kept)
                 /\ \A i \in 1..Len(kept) :
                       /\ ret.value[i].answer = kept[i].value
                       /\ ret.value[i].question =
                             Get(Questions(args.config)[FirstWithId(args.config, kept[i].key)],
                                 "text").v
                 /\ args.produced => Len(ret.value) = Len(args.responses))
    /\ [][(args.fn = "json") => UNCHANGED <<args, process>>]_vars

\* q3, which the document does not have, recorded before q1: one pair, for q1
C37_Witness ==
    /\ JsonCalled
    /\ args.responses = << [key |-> <<"q3">>, value |-> Dog], [key |-> <<"q1">>, value |-> Yes] >>
    /\ ret.value = << [question |-> <<"Do you have a pet?">>, answer |-> Yes] >>

\* the Answer Set of a session with one rejected line: two entries, two pairs
C37_Produced ==
    /\ JsonCalled
    /\ args.produced
    /\ Len(args.responses) = 2
    /\ Len(ret.value) = 2

\* the first defect of a parsed value at its top level, in the order: not an
\* object, title, questions not an array, no question; "none" when the top
\* level is sound.  An array counts as an object, as typeof has it.
TopDefect(doc) ==
    IF doc.t \notin {"object", "array"} THEN "object"
    ELSE IF ~Present(Get(doc, "title")) THEN "title"
    ELSE IF Get(doc, "questions").t # "array" THEN "questions"
    ELSE IF Get(doc, "questions").v = <<>> THEN "empty"
    ELSE "none"

\* what the schema error says about a defect of the top level
TopDefectMessage ==
    [object |-> " be an object",
     title |-> " have a \"title\" field of type string",
     questions |-> " have a \"questions\" field of type array",
     empty |-> " have at least one question"]

(***************************************************************************)
(* C38: the checks of the top level run in a fixed order and stop at the   *)
(* first that fails: a value that is no object, then a missing or          *)
(* non-string title, then questions that are no array, then an empty       *)
(* questions array; the questions are checked only when all of these       *)
(* pass.  A JSON array, and a document with no title and no question, are  *)
(* rejected with the title error.                                          *)
(***************************************************************************)
C38_TopLevelChecksInOrder ==
    (Loaded /\ args.doc # Undefined) =>
        /\ TopDefect(args.doc) # "none" =>
              /\ ~ret.value.ok
              /\ ret.value.message = <<"Configuration must", TopDefectMessage[TopDefect(args.doc)]>>
        /\ (~ret.value.ok /\ Head(ret.value.message) = "Question at index ") =>
              TopDefect(args.doc) = "none"
        /\ args.doc.t = "array" =>
              ret.value.message = <<"Configuration must", " have a \"title\" field of type string">>

\* no title and no question: the title error
C38_Witness ==
    /\ Loaded
    /\ args.doc = Obj([questions |-> Arr(<<>>)])
    /\ ~ret.value.ok
    /\ ret.value.message = <<"Configuration must", " have a \"title\" field of type string">>

\* '[]' as the loader test writes it: the title error
C38_Array ==
    /\ Loaded
    /\ args.doc = Arr(<<>>)
    /\ ret.value.message = <<"Configuration must", " have a \"title\" field of type string">>

\* the process has just been ended
Exits == pc # "exited" /\ pc' = "exited"

(***************************************************************************)
(* C39: however start() ends the process (new session declined, retry      *)
(* declined, fatal configuration error, unexpected error in the outer      *)
(* loop, interrupt), the readline interface is closed before the exit:     *)
(* the step that ends the process calls close, nothing is prompted after   *)
(* a close, the interface is closed only to exit, and nothing happens      *)
(* after the exit.                                                         *)
(***************************************************************************)
C39_ClosedBeforeExit ==
    /\ [][Exits => ( /\ closed'
                     /\ exitCode' \in {0, 1}
                     /\ \E i \in 1..Len(calls') : calls'[i].op = "close" )]_vars
    /\ [][pc # "exited"]_vars
    /\ [](closed <=> pc = "exited")
    /\ [](exitCode # -1 <=> pc = "exited")
    /\ [](\A i, j \in 1..Len(calls) :
             (i < j /\ calls[i].op = "close") => calls[j].op \notin {"prompt", "close"})

\* the try-again prompt fails: the outer catch closes the interface, reports
\* the fatal error and exits with status 1
C39_Witness ==
    /\ pc = "exited"
    /\ exitCode = 1
    /\ closed
    /\ Len(calls) >= 3
    /\ calls[Len(calls) - 2] = Call("prompt", RetryPrompt, 0)
    /\ calls[Len(calls) - 1] = Call("close", <<>>, 0)
    /\ calls[Len(calls)].op = "console.error"
    /\ Head(calls[Len(calls)].msg) = "\nFatal error: "

\* the operator declines a new session after a completed one
C39_DeclinedSession ==
    /\ pc = "exited" /\ exitCode = 0 /\ closed /\ result # Undefined
    /\ calls[Len(calls) - 1] = Call("display", Farewell, 0)
    /\ calls[Len(calls)] = Call("close", <<>>, 0)

\* the operator declines the retry after an error that is no configuration error
C39_DeclinedRetry ==
    /\ pc = "exited" /\ exitCode = 0 /\ closed /\ result = Undefined
    /\ Len(calls) >= 3
    /\ calls[Len(calls) - 2] = Call("prompt", RetryPrompt, 0)
    /\ calls[Len(calls) - 1] = Call("display", Farewell, 0)
    /\ calls[Len(calls)] = Call("close", <<>>, 0)

\* a configuration error: status 1
C39_FatalConfiguration ==
    /\ pc = "exited" /\ exitCode = 1 /\ closed
    /\ file.state = "absent"
    /\ calls[Len(calls)] = Call("close", <<>>, 0)

\* the interrupt signal
C39_Interrupted ==
    /\ pc = "exited" /\ exitCode = 0 /\ closed
    /\ calls[Len(calls) - 1] = Call("display", Goodbye, 0)
    /\ calls[Len(calls)] = Call("close", <<>>, 0)

=============================================================================
